---- MODULE Spec2Model ----
(***************************************************************************)
(* DirMeta: the recursive directory walk of DirMetadata (src/src/fs.rs)    *)
(* and the inotify watch loop of FsWatcher (src/src/watcher.rs).           *)
(*                                                                         *)
(* The walk is modelled one closure invocation at a time: one step per     *)
(* item yielded by a ReadDir, one step per read_dir of a discovered        *)
(* subdirectory, one step per return of sync_iter_dir.  The filesystem is  *)
(* a tree fixed at construction; the outcome of every filesystem call is   *)
(* chosen when the call is made and written to a log (fslog) that the      *)
(* program never reads.                                                    *)
(*                                                                         *)
(* The watch is modelled one step per call of FsWatcher::watch: the path   *)
(* check, Inotify::init, Watches::add, each read_events_blocking and each  *)
(* send.  The kernel's event queue, the consumer of the channel and the    *)
(* drop of the receiver are the environment.                               *)
(*                                                                         *)
(* The suspending walk (async_dir_metadata) is run as one step on the tree *)
(* and the call outcomes of a finished blocking walk, and on its own one   *)
(* await at a time (AwaitSpec).  The walks of builds with fewer features   *)
(* and the walks started on a returned value are run as one step in the    *)
(* same way.  The lookups on a result (get_file, get_file_by_path), the    *)
(* constructor new_path_buf, the translation of an event mask and the time *)
(* helpers are each applied in one step.                                   *)
(***************************************************************************)
EXTENDS Integers, Sequences, FiniteSets, TLC

\* ------------------------------------------------------------------ bounds
MaxEntries == 3     \* entries of the tree below the root
MaxSize == 1        \* largest meta.len() a stat returns
MaxFaulty == 1      \* paths on which filesystem calls fail during one walk
MaxEvents == 3      \* events the kernel queues during one watch
MaxCap == 1         \* largest capacity of a bounded channel
MaxFlags == 2       \* flags set in a raw event mask given to the translation
MaxTime == 2        \* latest instant of a timestamp and of the clock

\* The names of entries, in the order a listing yields them.  Renaming the
\* entries turns any listing order into this one, so no order is left out.
NameOrder == <<"a", "b">>

Names == {NameOrder[i] : i \in DOMAIN NameOrder}

\* ----------------------------------------------------------- paths, trees
\* A PathBuf below the root is the sequence of its components; Root is the
\* caller-supplied path.
Root == <<>>

\* Entries lie directly in the root or in a subdirectory of the root.
Paths == {<<n>> : n \in Names} \cup {<<n, m>> : n \in Names, m \in Names}

Parent(p) == SubSeq(p, 1, Len(p) - 1)

\* DirEntry::path(): the directory's path joined with the entry's name.
EntryPath(dir, name) == Append(dir, name)

\* DirEntry::file_name(): the last component.
FileName(p) == p[Len(p)]

IsUnder(p, d) == Len(p) > Len(d) /\ SubSeq(p, 1, Len(d)) = d

\* The trees: a set of paths closed under Parent, each a file or a directory,
\* where only directories have children.
Shapes ==
    {S \in SUBSET Paths :
        /\ Cardinality(S) <= MaxEntries
        /\ \A p \in S : Len(p) > 1 => Parent(p) \in S}

Trees ==
    UNION {{t \in [S -> {"file", "dir"}] :
               \A p \in S : Len(p) > 1 => t[Parent(p)] = "dir"} : S \in Shapes}

\* std::io::ErrorKind: the kinds with which a call on an entry below the root
\* fails in the model.
EntryErrKinds == {"PermissionDenied", "Other"}

VARIABLES
    rootKind,   \* what the caller-supplied path is: "dir", "file" or "none"
    tree,       \* the entries below the root: path -> "file" | "dir"
    pc,         \* "new" | "walking" | "done"
    md,         \* the DirMetadata being filled (self)
    stack,      \* the active sync_iter_dir calls, innermost last
    ret,        \* what sync_dir_metadata returned
    fslog       \* every filesystem call made, with its outcome (never read)

walkVars == <<rootKind, tree, pc, md, stack, ret, fslog>>

VARIABLES
    wpath,      \* FsWatcher.path: None or Some(path)
    watchFor,   \* the WatchMask given to watch
    wpc,        \* where watch is: "start", "init", "add", "read", "send", "done"
    kq,         \* the kernel's queue of raw events for the inotify instance
    queued,     \* every event the kernel has queued so far (never read by watch)
    batch,      \* the events of the last read not yet iterated
    cap,        \* the channel's capacity, 0 for an unbounded channel
    chan,       \* the outcomes in the channel
    closed,     \* the channel is closed: its receiver was dropped
    received,   \* the outcomes the consumer has taken from the channel
    wret,       \* what watch returned
    wlog        \* every read and send of watch, with its outcome (never read)

watchVars == <<wpath, watchFor, wpc, kq, queued, batch, cap, chan, closed,
               received, wret, wlog>>

VARIABLES
    apc,        \* where async_dir_metadata is: "idle" | "done"
    aret,       \* what async_dir_metadata returned
    aslog,      \* every filesystem call it made, with its outcome (never read)
    pending,    \* the operations the suspended walk is waiting for
    worker      \* the closure handed to blocking::unblock, on its thread

asyncVars == <<apc, aret, aslog, pending, worker>>

VARIABLES
    fcall,      \* the function called on its own, with its argument
    fret        \* what that call returned

fnVars == <<fcall, fret>>

vars == <<walkVars, watchVars, asyncVars, fnVars>>

\* ------------------------------------------------------------- data model
\* FileMetadata::default()
FileMetadataDefault ==
    [name |-> "", path |-> Root, size |-> 0, read_only |-> FALSE,
     created |-> <<>>, accessed |-> <<>>, modified |-> <<>>,
     symlink |-> FALSE, file_format |-> "Default"]

\* DirMetadata::new_path_buf: path and name set, the rest Default::default().
NewDirMetadata ==
    [name |-> "root", path |-> Root, directories |-> <<>>, files |-> <<>>,
     size |-> 0, errors |-> <<>>]

DirError(path, kind, display) ==
    [path |-> path, error |-> kind, display |-> display]

\* Option<T>
None == <<>>
Some(x) == <<x>>

\* Result<T, io::Error>
Ok(v) == [ok |-> TRUE, val |-> v]
Err(k) == [ok |-> FALSE, kind |-> k]

\* One entry of fslog: the call, the path it was made on, its outcome, and
\* whether the outcome counts as a failed call.
Call(op, path, res, fault) == [op |-> op, path |-> path, res |-> res, fault |-> fault]

\* The paths on which a call has failed so far.
FaultyPaths(log) == {log[i].path : i \in {j \in DOMAIN log : log[j].fault}}

\* Whether a call on path p may fail: calls fail on at most MaxFaulty paths.
CanFail(p) ==
    \/ p \in FaultyPaths(fslog)
    \/ Cardinality(FaultyPaths(fslog)) < MaxFaulty

\* ------------------------------------------- the filesystem's answers
\* What the filesystem says of an entry besides its kind.  The walk reads
\* neither (it calls no permissions() and no is_symlink()), so one assignment
\* in which both values occur stands for all: the entries named "a" are
\* read-only, and the non-directories named "b" are symbolic links.
ReadOnly(p) == FileName(p) = "a"

IsSymlink(p) == tree[p] = "file" /\ FileName(p) = "b"

\* The type of what the path leads to, symbolic links followed (fs::metadata,
\* Path::is_dir): the links of the model point to the root, a directory and
\* an ancestor of every entry.
TypeFollowed(p) == IF IsSymlink(p) THEN "dir" ELSE tree[p]

\* The entry's own type, symbolic links not followed: what
\* DirEntry::file_type() reports.
OwnType(p) == IF IsSymlink(p) THEN "symlink" ELSE tree[p]

\* read_dir(path): opening a directory.
ReadDirOutcomes(kind, mayFail) ==
    CASE kind = "dir"  -> {Ok("dir")} \cup
                          (IF mayFail THEN {Err(k) : k \in EntryErrKinds} ELSE {})
      [] kind = "file" -> {Err("NotADirectory")}
      [] OTHER         -> {Err("NotFound")}

\* DirEntry::file_type()
FileTypeOutcomes(kind, mayFail) ==
    {Ok(kind)} \cup (IF mayFail THEN {Err(k) : k \in EntryErrKinds} ELSE {})

\* std::fs::Metadata: the length and the three timestamps.
Meta(n, created) ==
    [len |-> n, accessed |-> Some(1), modified |-> Some(1), created |-> created]

\* DirEntry::metadata().  The filesystem of the model supports the three
\* timestamp queries, so a successful stat carries all of them.
MetadataOutcomes(mayFail) ==
    {Ok(Meta(n, Some(1))) : n \in 0..MaxSize}
    \cup (IF mayFail THEN {Err(k) : k \in EntryErrKinds} ELSE {})

\* FileFormat::from_file(path)
FormatOutcomes(mayFail) ==
    {Ok("PlainText")} \cup (IF mayFail THEN {Err("Other")} ELSE {})

\* Result::unwrap_or_default() on the detected format.
UnwrapOrDefault(res) == IF res.ok THEN res.val ELSE "Default"

\* Tai64N::from_system_time: the same instant as a TAI64N label.
FromSystemTime(time) == [tai64n |-> time]

\* FsUtils::maybe_time: Option<SystemTime> -> Option<Tai64N>
MaybeTime(time_result) ==
  IF time_result = None THEN None ELSE Some(FromSystemTime(time_result[1]))

\* ------------------------------------------------------------------- Init
EmptyTree == [p \in {} |-> "file"]

\* No watch: the state of the watch variables while a walk is checked.
WatchIdle ==
    /\ wpath = None
    /\ watchFor = {}
    /\ wpc = "idle"
    /\ kq = <<>>
    /\ queued = <<>>
    /\ batch = <<>>
    /\ cap = 0
    /\ chan = <<>>
    /\ closed = FALSE
    /\ received = <<>>
    /\ wret = [tag |-> "None"]
    /\ wlog = <<>>

\* No walk: the state of the walk variables while a watch is checked.
WalkIdle ==
    /\ rootKind = "none"
    /\ tree = EmptyTree
    /\ pc = "idle"
    /\ md = NewDirMetadata
    /\ stack = <<>>
    /\ ret = [tag |-> "None"]
    /\ fslog = <<>>

\* No suspending walk: the state of its variables while something else is
\* checked.
AsyncIdle ==
    /\ apc = "idle"
    /\ aret = [tag |-> "None"]
    /\ aslog = <<>>
    /\ pending = {}
    /\ worker = [state |-> "idle"]

\* No function called on its own.
FnIdle ==
    /\ fcall = [fn |-> "none"]
    /\ fret = [tag |-> "None"]

Init ==
    /\ rootKind \in {"dir", "file", "none"}
    /\ tree \in (IF rootKind = "dir" THEN Trees ELSE {EmptyTree})
    /\ pc = "new"
    /\ md = NewDirMetadata
    /\ stack = <<>>
    /\ ret = [tag |-> "None"]
    /\ fslog = <<>>
    /\ WatchIdle
    /\ AsyncIdle
    /\ FnIdle

\* The ReadDir of directory d: the names it has yet to yield, in order.
IsChild(d, name) == EntryPath(d, name) \in DOMAIN tree

Children(d) == SelectSeq(NameOrder, LAMBDA name : IsChild(d, name))

Frame(d) ==
    [rd |-> d, rest |-> Children(d), listing |-> TRUE, erred |-> FALSE,
     directories |-> <<>>, next |-> 1]

Top == stack[Len(stack)]

SetTop(f) == [stack EXCEPT ![Len(stack)] = f]

\* ------------------------------------------------------ sync_dir_metadata
\* A root-open failure swallowed: the untouched value is returned as a success.
RootOpenIgnored(res) == [tag |-> "Ok", value |-> md]

\* The `?` on read_dir(&self.path): the failure is returned, self is dropped.
RootOpenFailed(res) == [tag |-> "Err", error |-> res.kind]

\* read_dir(&self.path)?  then  self.sync_iter_dir(&mut dir)
SyncDirMetadata ==
    /\ pc = "new"
    /\ \E res \in ReadDirOutcomes(rootKind, TRUE) :
        /\ fslog' = Append(fslog, Call("root", Root, res, FALSE))
        /\ IF res.ok
           THEN /\ stack' = <<Frame(Root)>>
                /\ pc' = "walking"
                /\ ret' = ret
           ELSE /\ stack' = stack
                /\ pc' = "done"
                /\ ret' = RootOpenFailed(res)
    /\ UNCHANGED <<rootKind, tree, md, watchVars, asyncVars, fnVars>>

\* ---------------------------------------------------------- sync_iter_dir
\* The for_each closure on Err(error): the iterator failed to read an entry.
\* The iterator may go on after the failure or be at its end; it fails at
\* most once.
IterErr ==
    /\ pc = "walking"
    /\ Top.listing
    /\ ~Top.erred
    /\ CanFail(Top.rd)
    /\ \E k \in EntryErrKinds, more \in BOOLEAN :
        /\ md' = [md EXCEPT !.errors = Append(@, DirError(md.path, k, "io"))]
        /\ stack' = SetTop([Top EXCEPT !.rest = IF more THEN @ ELSE <<>>,
                                       !.erred = TRUE])
        /\ fslog' = Append(fslog, Call(IF more THEN "next" ELSE "next_last",
                                        Top.rd, Err(k), TRUE))
    /\ UNCHANGED <<rootKind, tree, pc, ret, watchVars, asyncVars, fnVars>>

\* The errors after the file_type() match.
AfterFileType(errors, p, ft) ==
    IF ft.ok THEN errors
    ELSE Append(errors, DirError(p, ft.kind, "check_dir"))

\* let mut is_dir = false; ... Ok(file_type) => is_dir = file_type.is_dir()
IsDir(ft) == IF ft.ok THEN ft.val = "dir" ELSE FALSE

\* The FileMetadata with the entry's bare name as its path.
FileMetaBareName(name, p, fmt, st) ==
    LET named == [FileMetadataDefault EXCEPT
                    !.file_format = UnwrapOrDefault(fmt),
                    !.name = name,
                    !.path = <<name>>]
    IN IF st.ok
       THEN [named EXCEPT !.size = st.val.len,
                          !.accessed = MaybeTime(st.val.accessed),
                          !.modified = MaybeTime(st.val.modified),
                          !.created = MaybeTime(st.val.created)]
       ELSE named

\* The FileMetadata built for a non-directory entry.
FileMeta(name, p, fmt, st) ==
    LET named == [FileMetadataDefault EXCEPT
                    !.file_format = UnwrapOrDefault(fmt),
                    !.name = name,
                    !.path = p]
    IN IF st.ok
       THEN [named EXCEPT !.size = st.val.len,
                          !.accessed = MaybeTime(st.val.accessed),
                          !.modified = MaybeTime(st.val.modified),
                          !.created = MaybeTime(st.val.created)]
       ELSE named

\* self.size += current_file_size
AddSize(size, st) == IF st.ok THEN size + st.val.len ELSE size

\* A stat failure that is not recorded.
AfterMetadataIgnored(errors, p, st) == errors

\* The errors after the metadata() match.
AfterMetadata(errors, p, st) ==
    IF st.ok THEN errors
    ELSE Append(errors, DirError(p, st.kind, "metadata"))

\* The for_each closure on Ok(entry), the entry a directory.
IterDirEntry ==
    /\ pc = "walking"
    /\ Top.listing
    /\ Top.rest # <<>>
    /\ LET name == Head(Top.rest)
           p == EntryPath(Top.rd, name) IN
        \E ft \in FileTypeOutcomes(OwnType(p), CanFail(p)) :
            /\ IsDir(ft)
            /\ stack' = SetTop([Top EXCEPT !.rest = Tail(@),
                                           !.directories = Append(@, p)])
            /\ md' = [md EXCEPT !.errors = AfterFileType(@, p, ft)]
            /\ fslog' = Append(fslog, Call("file_type", p, ft, ~ft.ok))
    /\ UNCHANGED <<rootKind, tree, pc, ret, watchVars, asyncVars, fnVars>>

\* The for_each closure on Ok(entry), the entry not found to be a directory.
IterFileEntry ==
    /\ pc = "walking"
    /\ Top.listing
    /\ Top.rest # <<>>
    /\ LET name == Head(Top.rest)
           p == EntryPath(Top.rd, name) IN
        \E ft \in FileTypeOutcomes(OwnType(p), CanFail(p)) :
            /\ ~IsDir(ft)
            /\ \E fmt \in FormatOutcomes(CanFail(p)) :
               \E st \in MetadataOutcomes(CanFail(p)) :
                /\ md' = [md EXCEPT
                            !.errors = AfterMetadata(AfterFileType(@, p, ft), p, st),
                            !.size = AddSize(@, st),
                            !.files = Append(@, FileMeta(name, p, fmt, st))]
                /\ fslog' = fslog \o <<Call("file_type", p, ft, ~ft.ok),
                                       Call("format", p, fmt, ~fmt.ok),
                                       Call("metadata", p, st, ~st.ok)>>
            /\ stack' = SetTop([Top EXCEPT !.rest = Tail(@)])
    /\ UNCHANGED <<rootKind, tree, pc, ret, watchVars, asyncVars, fnVars>>

\* The first for_each is over: the iterator returned None.
IterEnd ==
    /\ pc = "walking"
    /\ Top.listing
    /\ Top.rest = <<>>
    /\ stack' = SetTop([Top EXCEPT !.listing = FALSE])
    /\ UNCHANGED <<rootKind, tree, pc, md, ret, fslog, watchVars, asyncVars, fnVars>>

\* The open failure recorded against the walk's own path.
OpenErrorAtRoot(path, res) == DirError(md.path, res.kind, "metadata")

\* The error pushed when read_dir of a discovered subdirectory fails.
OpenError(path, res) == DirError(path, res.kind, "metadata")

\* The second for_each with the open failure of a subdirectory returned to the
\* caller instead of recorded.
OpenSubdirPropagates ==
    /\ pc = "walking"
    /\ ~Top.listing
    /\ Top.next <= Len(Top.directories)
    /\ LET path == Top.directories[Top.next] IN
       \E res \in ReadDirOutcomes(tree[path], CanFail(path)) :
        /\ fslog' = Append(fslog, Call("read_dir", path, res, ~res.ok))
        /\ IF res.ok
           THEN /\ stack' = Append(SetTop([Top EXCEPT !.next = @ + 1]), Frame(path))
                /\ UNCHANGED <<pc, ret>>
           ELSE /\ stack' = <<>>
                /\ pc' = "done"
                /\ ret' = [tag |-> "Err", error |-> res.kind]
    /\ UNCHANGED <<rootKind, tree, md, watchVars, asyncVars, fnVars>>

\* The second for_each taking the discovered subdirectories last first.
OpenSubdirLastFirst ==
    /\ pc = "walking"
    /\ ~Top.listing
    /\ Top.next <= Len(Top.directories)
    /\ LET path == Top.directories[Len(Top.directories) + 1 - Top.next] IN
       \E res \in ReadDirOutcomes(tree[path], CanFail(path)) :
        /\ fslog' = Append(fslog, Call("read_dir", path, res, ~res.ok))
        /\ IF res.ok
           THEN /\ stack' = Append(SetTop([Top EXCEPT !.next = @ + 1]), Frame(path))
                /\ md' = md
           ELSE /\ stack' = SetTop([Top EXCEPT !.next = @ + 1])
                /\ md' = [md EXCEPT
                            !.errors = Append(@, OpenError(path, res))]
    /\ UNCHANGED <<rootKind, tree, pc, ret, watchVars, asyncVars, fnVars>>

\* The second for_each: read_dir of the next discovered subdirectory, and on
\* success the recursive call.
OpenSubdir ==
    /\ pc = "walking"
    /\ ~Top.listing
    /\ Top.next <= Len(Top.directories)
    /\ LET path == Top.directories[Top.next] IN
       \E res \in ReadDirOutcomes(tree[path], CanFail(path)) :
        /\ fslog' = Append(fslog, Call("read_dir", path, res, ~res.ok))
        /\ IF res.ok
           THEN /\ stack' = Append(SetTop([Top EXCEPT !.next = @ + 1]), Frame(path))
                /\ md' = md
           ELSE /\ stack' = SetTop([Top EXCEPT !.next = @ + 1])
                /\ md' = [md EXCEPT
                            !.errors = Append(@, OpenError(path, res))]
    /\ UNCHANGED <<rootKind, tree, pc, ret, watchVars, asyncVars, fnVars>>

\* A return that keeps only this level's directories.
ReplaceWithSlice(dirs, local) == local

\* self.directories.extend_from_slice(&directories)
ExtendFromSlice(dirs, local) == dirs \o local

\* self.directories.extend_from_slice(&directories); self
IterReturn ==
    /\ pc = "walking"
    /\ ~Top.listing
    /\ Top.next > Len(Top.directories)
    /\ md' = [md EXCEPT !.directories = ExtendFromSlice(@, Top.directories)]
    /\ stack' = SubSeq(stack, 1, Len(stack) - 1)
    /\ IF Len(stack) = 1
       THEN /\ pc' = "done"
            /\ ret' = [tag |-> "Ok", value |-> md']
       ELSE UNCHANGED <<pc, ret>>
    /\ UNCHANGED <<rootKind, tree, fslog, watchVars, asyncVars, fnVars>>

Next ==
    \/ SyncDirMetadata
    \/ IterErr
    \/ IterDirEntry
    \/ IterFileEntry
    \/ IterEnd
    \/ OpenSubdir
    \/ IterReturn

Spec == Init /\ [][Next]_vars

\* ===================================================== async_dir_metadata
\* The suspending walk is run on the tree the blocking walk was run on, and
\* every filesystem call it makes has the outcome the same call had in the
\* blocking walk (fslog).  Nothing else touches self between two awaits (it
\* is borrowed mutably for the whole call), so the walk is one step.

\* The outcome of the call op on path p; a call the blocking walk did not make
\* has the outcome dflt.
Answer(op, p, dflt) ==
    LET I == {i \in DOMAIN fslog : fslog[i].op = op /\ fslog[i].path = p}
    IN IF I = {} THEN dflt ELSE fslog[CHOOSE i \in I : TRUE].res

\* Whether the blocking walk listed directory d.
Listed(d) ==
    \E i \in DOMAIN fslog :
        /\ fslog[i].op \in {"root", "read_dir"}
        /\ fslog[i].path = d
        /\ fslog[i].res.ok

\* The items prepared_dir.next() yields for directory d, in order: Ok(entry)
\* or Err(error), the stream ending after its last item.
StreamOf(d) ==
    LET L == SelectSeq(fslog, LAMBDA c :
                \/ c.op \in {"next", "next_last"} /\ c.path = d
                \/ c.op = "file_type" /\ Parent(c.path) = d)
    IN IF Listed(d)
       THEN [i \in DOMAIN L |->
                IF L[i].op = "file_type"
                THEN [ok |-> TRUE, name |-> FileName(L[i].path)]
                ELSE [ok |-> FALSE, kind |-> L[i].res.kind, op |-> L[i].op]]
       ELSE [i \in DOMAIN Children(d) |-> [ok |-> TRUE, name |-> Children(d)[i]]]

\* The FileMetadata without the detected format.
AsyncFileMetaNoFormat(name, p, fmt, st) ==
    LET named == [FileMetadataDefault EXCEPT !.name = name, !.path = p]
    IN IF st.ok
       THEN [named EXCEPT !.size = st.val.len,
                          !.accessed = MaybeTime(st.val.accessed),
                          !.modified = MaybeTime(st.val.modified),
                          !.created = MaybeTime(st.val.created)]
       ELSE named

\* The FileMetadata async_iter_dir builds for a non-directory entry.
AsyncFileMeta(name, p, fmt, st) ==
    LET named == [FileMetadataDefault EXCEPT
                    !.file_format = IF fmt.ok THEN fmt.val ELSE "Default",
                    !.name = name,
                    !.path = p]
    IN IF st.ok
       THEN [named EXCEPT !.size = st.val.len,
                          !.accessed = MaybeTime(st.val.accessed),
                          !.modified = MaybeTime(st.val.modified),
                          !.created = MaybeTime(st.val.created)]
       ELSE named

\* One turn of `while let Some(entry_result) = prepared_dir.next().await`.
\* w is self with the calls made so far and the local `directories`.
AsyncEntry(w, d, item) ==
    IF ~item.ok
    THEN [w EXCEPT
            !.md.errors = Append(@, DirError(w.md.path, item.kind, "io")),
            !.log = Append(@, Call(item.op, d, Err(item.kind), TRUE))]
    ELSE LET p == EntryPath(d, item.name)
             ft == Answer("file_type", p, Ok(OwnType(p)))
             is_dir == IF ft.ok THEN ft.val = "dir" ELSE FALSE
             e1 == IF ft.ok THEN w.md.errors
                   ELSE Append(w.md.errors, DirError(p, ft.kind, "check_dir"))
             l1 == Append(w.log, Call("file_type", p, ft, ~ft.ok))
         IN IF is_dir
            THEN [w EXCEPT !.md.errors = e1, !.log = l1,
                           !.directories = Append(@, p)]
            ELSE LET fmt == Answer("format", p, Ok("PlainText"))
                     st == Answer("metadata", p, Ok(Meta(0, Some(1))))
                 IN [w EXCEPT
                       !.md.errors =
                           IF st.ok THEN e1
                           ELSE Append(e1, DirError(p, st.kind, "metadata")),
                       !.md.size = IF st.ok THEN @ + st.val.len ELSE @,
                       !.md.files = Append(@, AsyncFileMeta(item.name, p, fmt, st)),
                       !.log = l1 \o <<Call("format", p, fmt, ~fmt.ok),
                                       Call("metadata", p, st, ~st.ok)>>]

\* The first while loop of async_iter_dir over the items left of the stream.
RECURSIVE AsyncListing(_, _, _)
AsyncListing(w, d, items) ==
    IF items = <<>> THEN w
    ELSE AsyncListing(AsyncEntry(w, d, Head(items)), d, Tail(items))

\* async_iter_dir(prepared_dir) on the ReadDir of directory d, and its second
\* while loop from the i-th discovered directory on.
RECURSIVE AsyncIterDir(_, _), AsyncSubdirs(_, _, _)
AsyncIterDir(w, d) ==
    LET listed == AsyncListing([w EXCEPT !.directories = <<>>], d, StreamOf(d))
        after == AsyncSubdirs(listed, listed.directories, 1)
    IN [after EXCEPT !.md.directories = @ \o listed.directories,
                     !.directories = w.directories]

AsyncSubdirs(w, directories, i) ==
    IF i > Len(directories) THEN w
    ELSE LET path == directories[i]
             res == Answer("read_dir", path, Ok("dir"))
             opened == [w EXCEPT !.log = Append(@, Call("read_dir", path, res, ~res.ok))]
         IN IF res.ok
            THEN AsyncSubdirs(AsyncIterDir(opened, path), directories, i + 1)
            ELSE AsyncSubdirs(
                    [opened EXCEPT !.md.errors =
                        Append(@, DirError(path, res.kind, "metadata"))],
                    directories, i + 1)

\* read_dir(&self.path).await?  then  self.async_iter_dir(&mut dir).await
AsyncDirMetadata ==
    /\ pc = "done"
    /\ apc = "idle"
    /\ LET res == fslog[1].res
           opened == [md |-> NewDirMetadata, directories |-> <<>>,
                      log |-> <<Call("root", Root, res, FALSE)>>]
       IN IF res.ok
          THEN LET w == AsyncIterDir(opened, Root) IN
               /\ aret' = [tag |-> "Ok", value |-> w.md]
               /\ aslog' = w.log
          ELSE /\ aret' = [tag |-> "Err", error |-> res.kind]
               /\ aslog' = opened.log
    /\ apc' = "done"
    /\ UNCHANGED <<walkVars, watchVars, fnVars, pending, worker>>

\* The blocking walk, then the suspending walk of the same tree.
BothNext ==
    \/ Next
    \/ AsyncDirMetadata

BothSpec == Init /\ [][BothNext]_vars

\* ================================== async_dir_metadata, await by await
\* The suspending walk one suspension point at a time.  self, the frames of
\* the recursion and the calls made are the walk variables (md, stack, fslog);
\* a frame records the await it is suspended at.  An operation handed to the
\* executor or to the blocking thread pool is in `pending` from the call to
\* the moment its future is ready and the walk resumes.

\* An operation in flight: what it is, the path it is on, the depth of the
\* frame that awaits it, and who runs it.
Pending(op, path, by) == [op |-> op, path |-> path, level |-> Len(stack), by |-> by]

\* The frame of async_iter_dir on the ReadDir of directory d, suspended at
\* its first prepared_dir.next().await.
AsyncFrame(d) ==
    [rd |-> d, rest |-> Children(d), erred |-> FALSE, directories |-> <<>>,
     next |-> 1, at |-> "next", ft |-> Ok("none"), format |-> "Default"]

\* read_dir(&self.path) is called and awaited.
AwaitRoot ==
    /\ pc = "new"
    /\ pending = {}
    /\ pc' = "opening"
    /\ pending' = {Pending("root", Root, "executor")}
    /\ UNCHANGED <<rootKind, tree, md, stack, ret, fslog, watchVars,
                   apc, aret, aslog, worker, fnVars>>

\* read_dir(&self.path).await? is ready: the failure is returned, or
\* async_iter_dir starts and suspends at prepared_dir.next().await.
RootReady ==
    /\ pc = "opening"
    /\ \E res \in ReadDirOutcomes(rootKind, TRUE) :
        /\ fslog' = Append(fslog, Call("root", Root, res, FALSE))
        /\ IF res.ok
           THEN /\ stack' = <<AsyncFrame(Root)>>
                /\ pc' = "walking"
                /\ ret' = ret
                /\ pending' = {[op |-> "next", path |-> Root, level |-> 1,
                                by |-> "executor"]}
           ELSE /\ stack' = stack
                /\ pc' = "done"
                /\ ret' = [tag |-> "Err", error |-> res.kind]
                /\ pending' = {}
    /\ UNCHANGED <<rootKind, tree, md, watchVars, apc, aret, aslog, worker, fnVars>>

\* prepared_dir.next().await is ready with Some(Err(error)): the error is
\* pushed and next() is awaited again.
NextReadyErr ==
    /\ pc = "walking"
    /\ Top.at = "next"
    /\ ~Top.erred
    /\ CanFail(Top.rd)
    /\ \E k \in EntryErrKinds, more \in BOOLEAN :
        /\ md' = [md EXCEPT !.errors = Append(@, DirError(md.path, k, "io"))]
        /\ stack' = SetTop([Top EXCEPT !.rest = IF more THEN @ ELSE <<>>,
                                       !.erred = TRUE])
        /\ fslog' = Append(fslog, Call(IF more THEN "next" ELSE "next_last",
                                        Top.rd, Err(k), TRUE))
    /\ pending' = {Pending("next", Top.rd, "executor")}
    /\ UNCHANGED <<rootKind, tree, pc, ret, watchVars, apc, aret, aslog,
                   worker, fnVars>>

\* prepared_dir.next().await is ready with Some(Ok(entry)): entry.file_type()
\* is called and awaited.
NextReadyEntry ==
    /\ pc = "walking"
    /\ Top.at = "next"
    /\ Top.rest # <<>>
    /\ stack' = SetTop([Top EXCEPT !.at = "file_type"])
    /\ pending' = {Pending("file_type", EntryPath(Top.rd, Head(Top.rest)), "executor")}
    /\ UNCHANGED <<rootKind, tree, pc, md, ret, fslog, watchVars, apc, aret,
                   aslog, worker, fnVars>>

\* prepared_dir.next().await is ready with None: the first loop is over.
\* dir_iter.next().await on a stream over a Vec is ready at once.
NextReadyNone ==
    /\ pc = "walking"
    /\ Top.at = "next"
    /\ Top.rest = <<>>
    /\ stack' = SetTop([Top EXCEPT !.at = "dir_iter"])
    /\ pending' = {}
    /\ UNCHANGED <<rootKind, tree, pc, md, ret, fslog, watchVars, apc, aret,
                   aslog, worker, fnVars>>

\* The closure handed to the thread pool left aside: the format is taken as
\* the default and the stat is awaited while the closure still runs.
FileTypeReadyNoJoin ==
    /\ pc = "walking"
    /\ Top.at = "file_type"
    /\ LET name == Head(Top.rest)
           p == EntryPath(Top.rd, name) IN
        \E ft \in FileTypeOutcomes(OwnType(p), CanFail(p)) :
            /\ md' = [md EXCEPT !.errors = AfterFileType(@, p, ft)]
            /\ fslog' = Append(fslog, Call("file_type", p, ft, ~ft.ok))
            /\ IF IsDir(ft)
               THEN /\ stack' = SetTop([Top EXCEPT !.rest = Tail(@),
                                                   !.directories = Append(@, p),
                                                   !.at = "next"])
                    /\ pending' = {Pending("next", Top.rd, "executor")}
                    /\ worker' = worker
               ELSE /\ stack' = SetTop([Top EXCEPT !.ft = ft, !.at = "metadata"])
                    /\ pending' = {Pending("format", p, "worker"),
                                   Pending("metadata", p, "executor")}
                    /\ worker' = [state |-> "running", path |-> p]
    /\ UNCHANGED <<rootKind, tree, pc, ret, watchVars, apc, aret, aslog, fnVars>>

\* entry.file_type().await is ready.  A directory is pushed to the local
\* `directories` and next() is awaited; for anything else the closure
\* FileFormat::from_file(cloned_path) is handed to blocking::unblock and its
\* task awaited.
FileTypeReady ==
    /\ pc = "walking"
    /\ Top.at = "file_type"
    /\ LET name == Head(Top.rest)
           p == EntryPath(Top.rd, name) IN
        \E ft \in FileTypeOutcomes(OwnType(p), CanFail(p)) :
            /\ md' = [md EXCEPT !.errors = AfterFileType(@, p, ft)]
            /\ fslog' = Append(fslog, Call("file_type", p, ft, ~ft.ok))
            /\ IF IsDir(ft)
               THEN /\ stack' = SetTop([Top EXCEPT !.rest = Tail(@),
                                                   !.directories = Append(@, p),
                                                   !.at = "next"])
                    /\ pending' = {Pending("next", Top.rd, "executor")}
                    /\ worker' = worker
               ELSE /\ stack' = SetTop([Top EXCEPT !.ft = ft, !.at = "format"])
                    /\ pending' = {Pending("format", p, "worker")}
                    /\ worker' = [state |-> "running", path |-> p]
    /\ UNCHANGED <<rootKind, tree, pc, ret, watchVars, apc, aret, aslog, fnVars>>

\* The closure on its thread: move || FileFormat::from_file(cloned_path).
\* It owns cloned_path and nothing else.
WorkerRuns ==
    /\ worker.state = "running"
    /\ \E fmt \in FormatOutcomes(CanFail(worker.path)) :
        /\ worker' = [state |-> "finished", path |-> worker.path, res |-> fmt]
        /\ fslog' = Append(fslog, Call("format", worker.path, fmt, ~fmt.ok))
    /\ UNCHANGED <<rootKind, tree, pc, md, stack, ret, watchVars, apc, aret,
                   aslog, pending, fnVars>>

\* get_file_format.await is ready once the closure has returned: the format
\* is kept, name and path are set, and entry.metadata() is called and awaited.
FormatReady ==
    /\ pc = "walking"
    /\ Top.at = "format"
    /\ worker.state = "finished"
    /\ stack' = SetTop([Top EXCEPT !.format = UnwrapOrDefault(worker.res),
                                   !.at = "metadata"])
    /\ worker' = [state |-> "idle"]
    /\ pending' = {Pending("metadata", worker.path, "executor")}
    /\ UNCHANGED <<rootKind, tree, pc, md, ret, fslog, watchVars, apc, aret,
                   aslog, fnVars>>

\* entry.metadata().await is ready: size and times are taken or the error is
\* pushed, the file is pushed, and next() is awaited.
MetadataReady ==
    /\ pc = "walking"
    /\ Top.at = "metadata"
    /\ LET name == Head(Top.rest)
           p == EntryPath(Top.rd, name) IN
        \E st \in MetadataOutcomes(CanFail(p)) :
            /\ md' = [md EXCEPT
                        !.errors = AfterMetadata(@, p, st),
                        !.size = AddSize(@, st),
                        !.files = Append(@, AsyncFileMeta(name, p, Ok(Top.format), st))]
            /\ fslog' = Append(fslog, Call("metadata", p, st, ~st.ok))
    /\ stack' = SetTop([Top EXCEPT !.rest = Tail(@), !.at = "next",
                                   !.ft = Ok("none"), !.format = "Default"])
    /\ pending' = {Pending("next", Top.rd, "executor")}
    /\ UNCHANGED <<rootKind, tree, pc, ret, watchVars, apc, aret, aslog,
                   worker, fnVars>>

\* The second loop: read_dir(path.clone()) of the next discovered directory
\* is called and awaited.
AwaitReadDir ==
    /\ pc = "walking"
    /\ Top.at = "dir_iter"
    /\ Top.next <= Len(Top.directories)
    /\ stack' = SetTop([Top EXCEPT !.at = "read_dir"])
    /\ pending' = {Pending("read_dir", Top.directories[Top.next], "executor")}
    /\ UNCHANGED <<rootKind, tree, pc, md, ret, fslog, watchVars, apc, aret,
                   aslog, worker, fnVars>>

\* read_dir(path.clone()).await is ready: on success the recursive call is
\* awaited and the callee suspends at its first next(); on failure the error
\* is pushed.
ReadDirReady ==
    /\ pc = "walking"
    /\ Top.at = "read_dir"
    /\ LET path == Top.directories[Top.next] IN
       \E res \in ReadDirOutcomes(tree[path], CanFail(path)) :
        /\ fslog' = Append(fslog, Call("read_dir", path, res, ~res.ok))
        /\ IF res.ok
           THEN /\ stack' = Append(SetTop([Top EXCEPT !.next = @ + 1,
                                                      !.at = "async_iter_dir"]),
                                   AsyncFrame(path))
                /\ md' = md
                /\ pending' = {[op |-> "next", path |-> path,
                                level |-> Len(stack) + 1, by |-> "executor"]}
           ELSE /\ stack' = SetTop([Top EXCEPT !.next = @ + 1, !.at = "dir_iter"])
                /\ md' = [md EXCEPT !.errors = Append(@, OpenError(path, res))]
                /\ pending' = {}
    /\ UNCHANGED <<rootKind, tree, pc, ret, watchVars, apc, aret, aslog,
                   worker, fnVars>>

\* self.directories.extend_from_slice(&directories); self  -- the caller's
\* self.async_iter_dir(..).await is ready, or async_dir_metadata returns.
AsyncReturn ==
    /\ pc = "walking"
    /\ Top.at = "dir_iter"
    /\ Top.next > Len(Top.directories)
    /\ md' = [md EXCEPT !.directories = ExtendFromSlice(@, Top.directories)]
    /\ IF Len(stack) = 1
       THEN /\ stack' = <<>>
            /\ pc' = "done"
            /\ ret' = [tag |-> "Ok", value |-> md']
       ELSE /\ stack' = [SubSeq(stack, 1, Len(stack) - 1)
                            EXCEPT ![Len(stack) - 1].at = "dir_iter"]
            /\ UNCHANGED <<pc, ret>>
    /\ UNCHANGED <<rootKind, tree, fslog, watchVars, asyncVars, fnVars>>

AwaitNext ==
    \/ AwaitRoot
    \/ RootReady
    \/ NextReadyErr
    \/ NextReadyEntry
    \/ NextReadyNone
    \/ FileTypeReady
    \/ WorkerRuns
    \/ FormatReady
    \/ MetadataReady
    \/ AwaitReadDir
    \/ ReadDirReady
    \/ AsyncReturn

AwaitSpec == Init /\ [][AwaitNext]_vars

\* ================================================================ the watch
\* pub const SENDER_CHANNEL_ERROR
SENDER_CHANNEL_ERROR == "SENDER_CHANNEL_CLOSED"

\* The flags of inotify::EventMask; a mask is a set of them.
EventFlags ==
    {"ACCESS", "ATTRIB", "CLOSE_WRITE", "CLOSE_NOWRITE", "CREATE", "DELETE",
     "DELETE_SELF", "MODIFY", "MOVE_SELF", "MOVED_FROM", "MOVED_TO", "OPEN",
     "IGNORED", "ISDIR", "Q_OVERFLOW", "UNMOUNT"}

\* enum WatcherEvents
WatcherEvents ==
    {"Access", "Attrib", "CloseWrite", "CloseNoWrite", "Create", "Delete",
     "DeleteSelf", "Modify", "MoveSelf", "MovedFrom", "MovedTo", "Open",
     "Ignored", "IsDir", "QueueOverflow", "Unmount", "Unsupported"}

\* A translation that takes the first known flag the mask contains.
FromEventMaskContains(value) ==
    CASE "ACCESS" \in value        -> "Access"
      [] "ATTRIB" \in value        -> "Attrib"
      [] "CLOSE_WRITE" \in value   -> "CloseWrite"
      [] "CLOSE_NOWRITE" \in value -> "CloseNoWrite"
      [] "CREATE" \in value        -> "Create"
      [] "DELETE" \in value        -> "Delete"
      [] "DELETE_SELF" \in value   -> "DeleteSelf"
      [] "MODIFY" \in value        -> "Modify"
      [] "MOVE_SELF" \in value     -> "MoveSelf"
      [] "MOVED_FROM" \in value    -> "MovedFrom"
      [] "MOVED_TO" \in value      -> "MovedTo"
      [] "OPEN" \in value          -> "Open"
      [] "IGNORED" \in value       -> "Ignored"
      [] "ISDIR" \in value         -> "IsDir"
      [] "Q_OVERFLOW" \in value    -> "QueueOverflow"
      [] "UNMOUNT" \in value       -> "Unmount"
      [] OTHER                     -> "Unsupported"

\* impl From<EventMask> for WatcherEvents: a match on the mask's value.
FromEventMask(value) ==
    CASE value = {"ACCESS"}        -> "Access"
      [] value = {"ATTRIB"}        -> "Attrib"
      [] value = {"CLOSE_WRITE"}   -> "CloseWrite"
      [] value = {"CLOSE_NOWRITE"} -> "CloseNoWrite"
      [] value = {"CREATE"}        -> "Create"
      [] value = {"DELETE"}        -> "Delete"
      [] value = {"DELETE_SELF"}   -> "DeleteSelf"
      [] value = {"MODIFY"}        -> "Modify"
      [] value = {"MOVE_SELF"}     -> "MoveSelf"
      [] value = {"MOVED_FROM"}    -> "MovedFrom"
      [] value = {"MOVED_TO"}      -> "MovedTo"
      [] value = {"OPEN"}          -> "Open"
      [] value = {"IGNORED"}       -> "Ignored"
      [] value = {"ISDIR"}         -> "IsDir"
      [] value = {"Q_OVERFLOW"}    -> "QueueOverflow"
      [] value = {"UNMOUNT"}       -> "Unmount"
      [] OTHER                     -> "Unsupported"

\* OsStr::to_string_lossy: a name that is not UTF-8 has its bad bytes replaced.
ToStringLossy(name) == IF name = "x\\xFF" THEN "x\\uFFFD" ELSE name

\* impl From<inotify::Event<&OsStr>> for WatcherOutcome
FromEvent(event) ==
    [descriptor |-> event.wd,
     mask |-> FromEventMask(event.mask),
     cookie |-> event.cookie,
     name |-> IF event.name = None THEN None
              ELSE Some(ToStringLossy(event.name[1]))]

\* The raw events the kernel of the model produces.
RawEvent(mask, name) == [wd |-> 1, mask |-> mask, cookie |-> 0, name |-> name]

RawEvents ==
    {RawEvent({"CREATE"}, Some("x")),
     RawEvent({"DELETE"}, Some("x\\xFF")),
     RawEvent({"CREATE", "ISDIR"}, Some("d")),
     RawEvent({"IGNORED"}, None)}

\* The kernel queues an event when the watch asked for one of its flags, and
\* IGNORED, Q_OVERFLOW and UNMOUNT whatever the watch asked for.
Delivers(mask, e) ==
    e.mask \cap (mask \cup {"IGNORED", "Q_OVERFLOW", "UNMOUNT"}) # {}

\* io::Error::new(kind, message); an error of the OS has the OS's message.
IoError(kind, msg) == [tag |-> "Err", kind |-> kind, msg |-> msg]

WatchErrKinds == {"PermissionDenied", "Other"}

WatchInit ==
    /\ WalkIdle
    /\ AsyncIdle
    /\ FnIdle
    /\ wpath \in {None, Some("src")}
    /\ watchFor = {"CREATE", "DELETE"}
    /\ wpc = "start"
    /\ kq = <<>>
    /\ queued = <<>>
    /\ batch = <<>>
    /\ cap \in 0..MaxCap
    /\ chan = <<>>
    /\ closed = FALSE
    /\ received = <<>>
    /\ wret = [tag |-> "None"]
    /\ wlog = <<>>

\* A watch that ends with Ok(()) when no path is set.
WatchStartReturnsOk ==
    /\ wpc = "start"
    /\ IF wpath = None
       THEN /\ wpc' = "done"
            /\ wret' = [tag |-> "Ok"]
       ELSE /\ wpc' = "init"
            /\ wret' = wret
    /\ UNCHANGED <<walkVars, asyncVars, fnVars,
                   wpath, watchFor, kq, queued, batch, cap, chan, closed,
                   received, wlog>>

\* if let Some(path) = self.path { ... } else { Err(NotFound) }
WatchStart ==
    /\ wpc = "start"
    /\ IF wpath = None
       THEN /\ wpc' = "done"
            /\ wret' = IoError("NotFound",
                               "The path was not found, maybe you didn't specify it")
       ELSE /\ wpc' = "init"
            /\ wret' = wret
    /\ UNCHANGED <<walkVars, asyncVars, fnVars,
                   wpath, watchFor, kq, queued, batch, cap, chan, closed,
                   received, wlog>>

\* let mut inotify = Inotify::init()?;
InotifyInit ==
    /\ wpc = "init"
    /\ \E res \in {Ok("inotify")} \cup {Err(k) : k \in WatchErrKinds} :
        /\ wlog' = Append(wlog, [op |-> "init", ok |-> res.ok, closed |-> closed,
                                kind |-> IF res.ok THEN "None" ELSE res.kind])
        /\ IF res.ok
           THEN wpc' = "add" /\ wret' = wret
           ELSE wpc' = "done" /\ wret' = IoError(res.kind, "os")
    /\ UNCHANGED <<walkVars, asyncVars, fnVars,
                   wpath, watchFor, kq, queued, batch, cap, chan, closed,
                   received>>

\* Watches::add with its failure dropped: the loop starts all the same.
WatchesAddUnchecked ==
    /\ wpc = "add"
    /\ \E res \in {Ok("wd")} \cup {Err(k) : k \in WatchErrKinds} :
        wlog' = Append(wlog, [op |-> "add", ok |-> res.ok, closed |-> closed,
                              kind |-> IF res.ok THEN "None" ELSE res.kind])
    /\ wpc' = "read"
    /\ UNCHANGED <<walkVars, asyncVars, fnVars,
                   wpath, watchFor, kq, queued, batch, cap, chan, closed,
                   received, wret>>

\* inotify.watches().add(&path, watch_for)?;
WatchesAdd ==
    /\ wpc = "add"
    /\ \E res \in {Ok("wd")} \cup {Err(k) : k \in WatchErrKinds} :
        /\ wlog' = Append(wlog, [op |-> "add", ok |-> res.ok, closed |-> closed,
                                kind |-> IF res.ok THEN "None" ELSE res.kind])
        /\ IF res.ok
           THEN wpc' = "read" /\ wret' = wret
           ELSE wpc' = "done" /\ wret' = IoError(res.kind, "os")
    /\ UNCHANGED <<walkVars, asyncVars, fnVars,
                   wpath, watchFor, kq, queued, batch, cap, chan, closed,
                   received>>

\* A read that hands over only the oldest event of what it took from the queue.
ReadEventsDropping ==
    /\ wpc = "read"
    /\ kq # <<>>
    /\ \E n \in 1..Len(kq) :
        /\ batch' = <<Head(kq)>>
        /\ kq' = SubSeq(kq, n + 1, Len(kq))
    /\ wpc' = "send"
    /\ wlog' = Append(wlog, [op |-> "read", ok |-> TRUE, closed |-> closed,
                             kind |-> "None"])
    /\ UNCHANGED <<walkVars, asyncVars, fnVars,
                   wpath, watchFor, queued, cap, chan, closed, received,
                   wret>>

\* inotify.read_events_blocking(&mut buffer) returning events: it blocks while
\* the kernel's queue is empty and returns some of the queued events, oldest
\* first.
ReadEvents ==
    /\ wpc = "read"
    /\ kq # <<>>
    /\ \E n \in 1..Len(kq) :
        /\ batch' = SubSeq(kq, 1, n)
        /\ kq' = SubSeq(kq, n + 1, Len(kq))
    /\ wpc' = "send"
    /\ wlog' = Append(wlog, [op |-> "read", ok |-> TRUE, closed |-> closed,
                             kind |-> "None"])
    /\ UNCHANGED <<walkVars, asyncVars, fnVars,
                   wpath, watchFor, queued, cap, chan, closed, received,
                   wret>>

\* A failed read that is tried again instead of being returned.
ReadFailsRetried ==
    /\ wpc = "read"
    /\ \E k \in WatchErrKinds :
        wlog' = Append(wlog, [op |-> "read", ok |-> FALSE, closed |-> closed,
                              kind |-> k])
    /\ Len(wlog) < 2 * MaxEvents + 3
    /\ UNCHANGED <<walkVars, asyncVars, fnVars,
                   wpath, watchFor, wpc, kq, queued, batch, cap, chan, closed,
                   received, wret>>

\* inotify.read_events_blocking(&mut buffer)? failing: the `?` returns it.
ReadFails ==
    /\ wpc = "read"
    /\ \E k \in WatchErrKinds :
        /\ wret' = IoError(k, "os")
        /\ wlog' = Append(wlog, [op |-> "read", ok |-> FALSE, closed |-> closed,
                                 kind |-> k])
    /\ wpc' = "done"
    /\ UNCHANGED <<walkVars, asyncVars, fnVars,
                   wpath, watchFor, kq, queued, batch, cap, chan, closed,
                   received>>

\* async_channel: a send waits while a bounded channel is full and open.
IsFull == cap > 0 /\ Len(chan) >= cap

\* The body of `for event in events` with a failed send skipped over.
SendOutcomeIgnoringFailure ==
    /\ wpc = "send"
    /\ closed \/ ~IsFull
    /\ LET outcome == FromEvent(Head(batch)) IN
       /\ chan' = IF closed THEN chan ELSE Append(chan, outcome)
       /\ wlog' = Append(wlog, [op |-> "send", ok |-> ~closed, closed |-> closed,
                                kind |-> "None"])
    /\ batch' = Tail(batch)
    /\ wpc' = IF Tail(batch) = <<>> THEN "read" ELSE "send"
    /\ UNCHANGED <<walkVars, asyncVars, fnVars,
                   wpath, watchFor, kq, queued, cap, closed, received, wret>>

\* The body of `for event in events`: the event is translated and sent; a send
\* on a closed channel fails and watch returns the channel-closed error.
SendOutcome ==
    /\ wpc = "send"
    /\ closed \/ ~IsFull
    /\ LET outcome == FromEvent(Head(batch)) IN
       IF closed
       THEN /\ chan' = chan
            /\ wpc' = "done"
            /\ wret' = IoError("Other", SENDER_CHANNEL_ERROR)
            /\ wlog' = Append(wlog, [op |-> "send", ok |-> FALSE, closed |-> closed,
                                    kind |-> "Other"])
       ELSE /\ chan' = Append(chan, outcome)
            /\ wpc' = IF Tail(batch) = <<>> THEN "read" ELSE "send"
            /\ wret' = wret
            /\ wlog' = Append(wlog, [op |-> "send", ok |-> TRUE, closed |-> closed,
                                    kind |-> "None"])
    /\ batch' = Tail(batch)
    /\ UNCHANGED <<walkVars, asyncVars, fnVars,
                   wpath, watchFor, kq, queued, cap, closed, received>>

\* The environment: the kernel queues an event for the registered watch.  No
\* event follows IGNORED, which says the watch is gone.
FsEvent ==
    /\ wpc \in {"read", "send"}
    /\ Len(queued) < MaxEvents
    /\ \A i \in DOMAIN queued : "IGNORED" \notin queued[i].mask
    /\ \E e \in RawEvents :
        /\ Delivers(watchFor, e)
        /\ kq' = Append(kq, e)
        /\ queued' = Append(queued, e)
    /\ UNCHANGED <<walkVars, asyncVars, fnVars,
                   wpath, watchFor, wpc, batch, cap, chan, closed,
                   received, wret, wlog>>

\* The environment: the consumer takes the oldest outcome off the channel.
Recv ==
    /\ ~closed
    /\ chan # <<>>
    /\ received' = Append(received, Head(chan))
    /\ chan' = Tail(chan)
    /\ UNCHANGED <<walkVars, asyncVars, fnVars,
                   wpath, watchFor, wpc, kq, queued, batch, cap, closed,
                   wret, wlog>>

\* The environment: the consumer drops the receiver, which closes the channel.
DropReceiver ==
    /\ ~closed
    /\ closed' = TRUE
    /\ UNCHANGED <<walkVars, asyncVars, fnVars,
                   wpath, watchFor, wpc, kq, queued, batch, cap, chan,
                   received, wret, wlog>>

\* The steps watch takes when it is scheduled and not blocked.
WatchStep ==
    \/ WatchStart
    \/ InotifyInit
    \/ WatchesAdd
    \/ ReadEvents
    \/ SendOutcome

WatchNext ==
    \/ WatchStep
    \/ ReadFails
    \/ FsEvent
    \/ Recv
    \/ DropReceiver

WatchSpec == WatchInit /\ [][WatchNext]_vars

\* The task running watch is scheduled whenever it can take a step; nothing
\* is assumed of the kernel producing events or failing reads, nor of the
\* consumer.
WatchLive == WatchSpec /\ WF_vars(WatchStep)

\* ===================================================== the cargo features
\* The features that gate parts of the file branch of the walk.
Features == {"file-type", "size", "time", "extra"}

\* The builds: FileMetadata::formatted_size (feature "size") reads the field
\* `size`, which exists under feature "extra" only.
Builds == {fs \in SUBSET Features : "size" \in fs => "extra" \in fs}

\* A stat made only when sizes are kept.
StatNeededForSize(features) == "extra" \in features

\* #[cfg(any(feature = "size", feature = "time", feature = "extra"))]
StatNeeded(features) == features \cap {"size", "time", "extra"} # {}

\* A FileMetadata that is left without its size.
FeatFileMetaUnsized(name, p, fmt, st, features) ==
    [FileMetadataDefault EXCEPT
        !.file_format = IF "file-type" \in features /\ fmt.ok
                        THEN fmt.val ELSE "Default",
        !.name = name,
        !.path = p]

\* The FileMetadata the file branch builds under the features enabled; st is
\* the outcome of entry.metadata() when it was called.
FeatFileMeta(name, p, fmt, st, features) ==
    LET formatted == IF "file-type" \in features
                     THEN [FileMetadataDefault EXCEPT
                             !.file_format = IF fmt.ok THEN fmt.val ELSE "Default"]
                     ELSE FileMetadataDefault
        named == [formatted EXCEPT !.name = name, !.path = p]
        sized == IF StatNeeded(features) /\ st.ok /\ "extra" \in features
                 THEN [named EXCEPT !.size = st.val.len]
                 ELSE named
    IN IF StatNeeded(features) /\ st.ok /\ "time" \in features
       THEN [sized EXCEPT !.accessed = MaybeTime(st.val.accessed),
                          !.modified = MaybeTime(st.val.modified),
                          !.created = MaybeTime(st.val.created)]
       ELSE sized

\* One invocation of the closure of the first for_each of sync_iter_dir under
\* the features enabled, the filesystem answering as it did in the walk with
\* every feature enabled.
FeatEntry(w, d, item, features) ==
    IF ~item.ok
    THEN [w EXCEPT
            !.md.errors = Append(@, DirError(w.md.path, item.kind, "io")),
            !.log = Append(@, Call(item.op, d, Err(item.kind), TRUE))]
    ELSE LET p == EntryPath(d, item.name)
             ft == Answer("file_type", p, Ok(OwnType(p)))
             is_dir == IF ft.ok THEN ft.val = "dir" ELSE FALSE
             e1 == IF ft.ok THEN w.md.errors
                   ELSE Append(w.md.errors, DirError(p, ft.kind, "check_dir"))
             l1 == Append(w.log, Call("file_type", p, ft, ~ft.ok))
         IN IF is_dir
            THEN [w EXCEPT !.md.errors = e1, !.log = l1,
                           !.directories = Append(@, p)]
            ELSE LET fmt == Answer("format", p, Ok("PlainText"))
                     st == Answer("metadata", p, Ok(Meta(0, Some(1))))
                     l2 == IF "file-type" \in features
                           THEN Append(l1, Call("format", p, fmt, ~fmt.ok))
                           ELSE l1
                 IN [w EXCEPT
                       !.md.errors =
                           IF StatNeeded(features) /\ ~st.ok
                           THEN Append(e1, DirError(p, st.kind, "metadata"))
                           ELSE e1,
                       !.md.size =
                           IF StatNeeded(features) /\ st.ok /\ "extra" \in features
                           THEN @ + st.val.len ELSE @,
                       !.md.files =
                           Append(@, FeatFileMeta(item.name, p, fmt, st, features)),
                       !.log = IF StatNeeded(features)
                               THEN Append(l2, Call("metadata", p, st, ~st.ok))
                               ELSE l2]

\* The first for_each of sync_iter_dir over the items left of the listing.
RECURSIVE FeatListing(_, _, _, _)
FeatListing(w, d, items, features) ==
    IF items = <<>> THEN w
    ELSE FeatListing(FeatEntry(w, d, Head(items), features), d, Tail(items),
                     features)

\* sync_iter_dir on the ReadDir of directory d under the features enabled, and
\* its second for_each from the i-th discovered directory on.
RECURSIVE FeatIterDir(_, _, _), FeatSubdirs(_, _, _, _)
FeatIterDir(w, d, features) ==
    LET listed == FeatListing([w EXCEPT !.directories = <<>>], d, StreamOf(d),
                              features)
        after == FeatSubdirs(listed, listed.directories, 1, features)
    IN [after EXCEPT !.md.directories = @ \o listed.directories,
                     !.directories = w.directories]

FeatSubdirs(w, directories, i, features) ==
    IF i > Len(directories) THEN w
    ELSE LET path == directories[i]
             res == Answer("read_dir", path, Ok("dir"))
             opened == [w EXCEPT !.log = Append(@, Call("read_dir", path, res, ~res.ok))]
         IN IF res.ok
            THEN FeatSubdirs(FeatIterDir(opened, path, features), directories,
                             i + 1, features)
            ELSE FeatSubdirs(
                    [opened EXCEPT !.md.errors =
                        Append(@, DirError(path, res.kind, "metadata"))],
                    directories, i + 1, features)

\* sync_dir_metadata of a build with a subset of the features, on the tree and
\* with the call outcomes of the walk with every feature enabled.
FeatureWalk ==
    /\ pc = "done"
    /\ fcall.fn = "none"
    /\ \E features \in Builds :
        LET res == fslog[1].res
            opened == [md |-> NewDirMetadata, directories |-> <<>>,
                       log |-> <<Call("root", Root, res, FALSE)>>]
        IN /\ fcall' = [fn |-> "sync_dir_metadata", arg |-> features]
           /\ fret' = IF res.ok
                      THEN [tag |-> "Ok",
                            value |-> FeatIterDir(opened, Root, features).md]
                      ELSE [tag |-> "Err", error |-> res.kind]
    /\ UNCHANGED <<walkVars, watchVars, asyncVars>>

FeatureNext ==
    \/ Next
    \/ FeatureWalk

FeatureSpec == Init /\ [][FeatureNext]_vars

\* ============================================= a walk on a returned value
\* sync_dir_metadata takes self by value and returns it in Ok(self), and
\* sync_iter_dir is public and takes &mut self: the caller can start a walk
\* on the value an earlier walk returned.  The tree is unchanged and every
\* filesystem call has the outcome it had in the first walk.

\* ret.value.sync_dir_metadata(): read_dir(&self.path)? then
\* self.sync_iter_dir(&mut dir) on self as it was returned.
WalkAgain ==
    /\ pc = "done"
    /\ ret.tag = "Ok"
    /\ fcall.fn = "none"
    /\ LET res == fslog[1].res
           opened == [md |-> ret.value, directories |-> <<>>,
                      log |-> <<Call("root", Root, res, FALSE)>>]
       IN /\ fcall' = [fn |-> "self.sync_dir_metadata", arg |-> ret.value]
          /\ fret' = IF res.ok
                     THEN [tag |-> "Ok",
                           value |-> FeatIterDir(opened, Root, Features).md]
                     ELSE [tag |-> "Err", error |-> res.kind]
    /\ UNCHANGED <<walkVars, watchVars, asyncVars>>

\* ret.value.sync_iter_dir(&mut dir), dir being the caller's own
\* read_dir(&self.path): the walk runs on self as it was returned.
IterDirAgain ==
    /\ pc = "done"
    /\ ret.tag = "Ok"
    /\ fcall.fn = "none"
    /\ LET opened == [md |-> ret.value, directories |-> <<>>, log |-> <<>>]
       IN /\ fcall' = [fn |-> "self.sync_iter_dir", arg |-> ret.value]
          /\ fret' = [tag |-> "Ok",
                      value |-> FeatIterDir(opened, Root, Features).md]
    /\ UNCHANGED <<walkVars, watchVars, asyncVars>>

AgainNext ==
    \/ Next
    \/ WalkAgain
    \/ IterDirAgain

AgainSpec == Init /\ [][AgainNext]_vars

\* ================================================= queries on a result
\* The names and paths asked for: those of the tree's entries, and one of each
\* that no tree has.
QueryNames == Names \cup {"zz"}

QueryPaths == Paths \cup {Root, <<"zz">>}

\* A lookup by name that stops at the first match.
GetFileFirst(self, file_name) ==
    LET I == {i \in DOMAIN self.files : self.files[i].name = file_name}
    IN IF I = {} THEN <<>>
       ELSE <<self.files[CHOOSE i \in I : \A j \in I : i <= j]>>

\* DirMetadata::get_file: files().iter().filter(name == file_name).collect()
GetFile(self, file_name) ==
    SelectSeq(self.files, LAMBDA file : file.name = file_name)

\* DirMetadata::get_file_by_path: files().iter().find(path == Path::new(path));
\* paths compare component by component.
GetFileByPath(self, path) ==
    LET I == {i \in DOMAIN self.files : self.files[i].path = path}
    IN IF I = {} THEN None
       ELSE Some(self.files[CHOOSE i \in I : \A j \in I : i <= j])

\* dir.get_file(file_name) on the result of a walk.
GetFileCall ==
    /\ pc = "done"
    /\ ret.tag = "Ok"
    /\ fcall.fn = "none"
    /\ \E n \in QueryNames :
        /\ fcall' = [fn |-> "get_file", arg |-> n]
        /\ fret' = [tag |-> "Ok", value |-> GetFile(ret.value, n)]
    /\ UNCHANGED <<walkVars, watchVars, asyncVars>>

\* dir.get_file_by_path(path) on the result of a walk.
GetFileByPathCall ==
    /\ pc = "done"
    /\ ret.tag = "Ok"
    /\ fcall.fn = "none"
    /\ \E p \in QueryPaths :
        /\ fcall' = [fn |-> "get_file_by_path", arg |-> p]
        /\ fret' = [tag |-> "Ok", value |-> GetFileByPath(ret.value, p)]
    /\ UNCHANGED <<walkVars, watchVars, asyncVars>>

QueryNext ==
    \/ Next
    \/ GetFileCall
    \/ GetFileByPathCall

QuerySpec == Init /\ [][QueryNext]_vars

\* ============================================= functions called on their own
\* The bit patterns an EventMask can hold: any of the 16 flags, and bits that
\* are none of them (from_bits_retain keeps what the kernel wrote).
MaskBits == EventFlags \cup {"UNKNOWN_BIT"}

Masks == {m \in SUBSET MaskBits : Cardinality(m) <= MaxFlags}

MaskCalls == {[fn |-> "from_event_mask", arg |-> m] : m \in Masks}

\* A caller-supplied path as the sequence of its components: "/" is the root
\* directory, ".." the parent directory, anything else a normal component.
CallerPaths ==
    {<<>>, <<"/">>, <<"..">>, <<"a">>, <<"/", "a">>, <<"a", "..">>,
     <<"a", "b">>, <<"..", "a">>}

NewCalls == {[fn |-> "new_path_buf", arg |-> p] : p \in CallerPaths}

\* ------------------------------------------------------------ time helpers
\* Instants are whole numbers; a Tai64N is the label of an instant.
Instants == 0..MaxTime

Tai64Ns == {FromSystemTime(i) : i \in Instants}

\* Tai64N::to_system_time
ToSystemTime(time) == time.tai64n

\* Tai64N::duration_since(&self, other): Ok(self - other) when self is not
\* before other, Err otherwise.
DurationSince(self, other) ==
    IF ToSystemTime(self) >= ToSystemTime(other)
    THEN Ok(ToSystemTime(self) - ToSystemTime(other))
    ELSE Err("Other")

\* humantime::format_duration(duration).to_string()
FormatDuration(duration) == <<"duration", duration>>

\* FsUtils::tai64_to_local_hrs: the date and the time of day as "%H:%M:%S".
Tai64ToLocalHrs(time) ==
    [date |-> <<"date", ToSystemTime(time)>>,
     time |-> <<"%H:%M:%S", ToSystemTime(time)>>]

\* FsUtils::tai64_to_local_am_pm: the date and the time of day as "%-I:%M %p".
Tai64ToLocalAmPm(time) ==
    [date |-> <<"date", ToSystemTime(time)>>,
     time |-> <<"%-I:%M %p", ToSystemTime(time)>>]

\* A duration from now that is taken whichever of the two instants is later.
Tai64DurationFromNowAbs(earlier_time, now) ==
    IF DurationSince(now, earlier_time).ok
    THEN Some(DurationSince(now, earlier_time).val)
    ELSE Some(DurationSince(earlier_time, now).val)

\* FsUtils::tai64_duration_from_now, with the value Tai64N::now() returns.
Tai64DurationFromNow(earlier_time, now) ==
    IF DurationSince(now, earlier_time).ok
    THEN Some(DurationSince(now, earlier_time).val)
    ELSE None

\* FsUtils::tai64_now_duration_to_humantime
Tai64NowDurationToHumantime(earlier_time, now) ==
    LET d == Tai64DurationFromNow(earlier_time, now)
    IN IF d = None THEN None ELSE Some(FormatDuration(d[1]))

\* FsUtils::tai64_duration: earlier_time.duration_since(current_time)
Tai64Duration(earlier_time, current_time) ==
    IF DurationSince(earlier_time, current_time).ok
    THEN Some(DurationSince(earlier_time, current_time).val)
    ELSE None

\* FsUtils::tai64_to_humantime
Tai64ToHumantime(earlier_time, current_time) ==
    LET d == Tai64Duration(earlier_time, current_time)
    IN IF d = None THEN None ELSE Some(FormatDuration(d[1]))

\* FileMetadata::{accessed,modified,created}_{24hr,am_pm,humatime}: `?` on the
\* field, then the helper of the accessor's kind.
TimeAccessor(file, field, kind, now) ==
    IF file[field] = None THEN None
    ELSE CASE kind = "24hr"  -> Some(Tai64ToLocalHrs(file[field][1]))
           [] kind = "am_pm" -> Some(Tai64ToLocalAmPm(file[field][1]))
           [] OTHER          -> Tai64NowDurationToHumantime(file[field][1], now)

TimeFields == {"accessed", "modified", "created"}

AccessorKinds == {"24hr", "am_pm", "humatime"}

OptionTai64Ns == {None} \cup {Some(x) : x \in Tai64Ns}

\* The FileMetadata values that differ in their timestamps.
TimedFiles ==
    {[FileMetadataDefault EXCEPT !.accessed = a, !.modified = m, !.created = c] :
        a \in OptionTai64Ns, m \in OptionTai64Ns, c \in OptionTai64Ns}

AccessorCalls ==
    {[fn |-> "time_accessor",
      arg |-> [file |-> f, field |-> fd, kind |-> k, now |-> n]] :
        f \in TimedFiles, fd \in TimeFields, k \in AccessorKinds, n \in Tai64Ns}

DurationCalls ==
    {[fn |-> fn, arg |-> [earlier_time |-> e, current_time |-> c]] :
        fn \in {"tai64_duration", "tai64_to_humantime"},
        e \in Tai64Ns, c \in Tai64Ns}

FnInit ==
    /\ WalkIdle
    /\ WatchIdle
    /\ AsyncIdle
    /\ \/ fcall \in MaskCalls
       \/ fcall \in NewCalls
       \/ fcall \in AccessorCalls
       \/ fcall \in DurationCalls
    /\ fret = [tag |-> "None"]

\* Path::file_name: the last component if it is a normal one, None for a path
\* that is empty, is the root directory or ends in "..".
PathFileName(path) ==
    IF path = <<>> THEN None
    ELSE IF path[Len(path)] \in {"/", ".."} THEN None
    ELSE Some(path[Len(path)])

\* Option::unwrap
Unwrap(opt) == IF opt = None THEN [tag |-> "Panic"] ELSE [tag |-> "Ok", value |-> opt[1]]

\* DirMetadata::new_path_buf: name = path.file_name().unwrap()...; the rest
\* Default::default().
NewPathBuf(path) ==
    LET name == Unwrap(PathFileName(path))
    IN IF name.tag = "Panic" THEN name
       ELSE [tag |-> "Ok",
             value |-> [name |-> name.value, path |-> path, directories |-> <<>>,
                        files |-> <<>>, size |-> 0, errors |-> <<>>]]

\* DirMetadata::new(path) / DirMetadata::new_path_buf(path)
ApplyNewPathBuf ==
    /\ fcall.fn = "new_path_buf"
    /\ fret.tag = "None"
    /\ fret' = NewPathBuf(fcall.arg)
    /\ UNCHANGED <<walkVars, watchVars, asyncVars, fcall>>

\* WatcherEvents::from(mask)
ApplyFromEventMask ==
    /\ fcall.fn = "from_event_mask"
    /\ fret.tag = "None"
    /\ fret' = [tag |-> "Ok", value |-> FromEventMask(fcall.arg)]
    /\ UNCHANGED <<walkVars, watchVars, asyncVars, fcall>>

\* file.accessed_24hr() and the eight accessors like it
ApplyTimeAccessor ==
    /\ fcall.fn = "time_accessor"
    /\ fret.tag = "None"
    /\ fret' = [tag |-> "Ok",
                value |-> TimeAccessor(fcall.arg.file, fcall.arg.field,
                                       fcall.arg.kind, fcall.arg.now)]
    /\ UNCHANGED <<walkVars, watchVars, asyncVars, fcall>>

\* FsUtils::tai64_duration(&earlier_time, &current_time)
ApplyTai64Duration ==
    /\ fcall.fn = "tai64_duration"
    /\ fret.tag = "None"
    /\ fret' = [tag |-> "Ok",
                value |-> Tai64Duration(fcall.arg.earlier_time,
                                        fcall.arg.current_time)]
    /\ UNCHANGED <<walkVars, watchVars, asyncVars, fcall>>

\* FsUtils::tai64_to_humantime(&earlier_time, &current_time)
ApplyTai64ToHumantime ==
    /\ fcall.fn = "tai64_to_humantime"
    /\ fret.tag = "None"
    /\ fret' = [tag |-> "Ok",
                value |-> Tai64ToHumantime(fcall.arg.earlier_time,
                                           fcall.arg.current_time)]
    /\ UNCHANGED <<walkVars, watchVars, asyncVars, fcall>>

FnNext ==
    \/ ApplyFromEventMask
    \/ ApplyNewPathBuf
    \/ ApplyTimeAccessor
    \/ ApplyTai64Duration
    \/ ApplyTai64ToHumantime

FnSpec == FnInit /\ [][FnNext]_vars

\* ================================================================ claims
\* What the log says of the walk so far.
RootOpened == fslog # <<>> /\ fslog[1].res.ok

RootFailed == fslog # <<>> /\ ~fslog[1].res.ok

ReturnedOk == pc = "done" /\ ret.tag = "Ok"

\* The calls below the root whose failure the walk is to record.
IsRecordedFailure(c) ==
    c.op \in {"next", "next_last", "file_type", "metadata", "read_dir"} /\ ~c.res.ok

FailedCalls == SelectSeq(fslog, IsRecordedFailure)

FailedOn(op, p) ==
    {i \in DOMAIN fslog : fslog[i].op = op /\ fslog[i].path = p /\ ~fslog[i].res.ok}

SucceededOn(op, p) ==
    {i \in DOMAIN fslog : fslog[i].op = op /\ fslog[i].path = p /\ fslog[i].res.ok}

\* The directory d was opened: its entries are being or have been listed.
Opened(d) == IF d = Root THEN RootOpened ELSE SucceededOn("read_dir", d) # {}

\* The listing of d was cut short by a failed read.
CutShort(d) == \E i \in DOMAIN fslog : fslog[i].op = "next_last" /\ fslog[i].path = d

\* The entry p has been yielded by its directory's listing.
Visited(p) == \E i \in DOMAIN fslog : fslog[i].op = "file_type" /\ fslog[i].path = p

InFiles(p) == Cardinality({i \in DOMAIN md.files : md.files[i].path = p})

InDirs(p) == Cardinality({i \in DOMAIN md.directories : md.directories[i] = p})

ErrorsAt(p) == {i \in DOMAIN md.errors : md.errors[i].path = p}

RECURSIVE SumSizes(_)
SumSizes(files) ==
    IF files = <<>> THEN 0 ELSE Head(files).size + SumSizes(Tail(files))

\* ---------------------------------------------------------------------- C1
\* C1: the walk returns a failure only when opening the root fails.  Every
\* failed call below the root (a listing read, a file_type, a metadata, a
\* read_dir of a subdirectory) has pushed one error, in call order and with
\* the failure's kind; the walk goes on to every entry its listings still
\* yield, never gets stuck, and ends returning Ok with the accumulator.
C1_OnlyRootOpenFails ==
    /\ ret.tag = "Err" => RootFailed
    /\ [i \in DOMAIN md.errors |-> md.errors[i].error]
         = [i \in DOMAIN FailedCalls |-> FailedCalls[i].res.kind]
    /\ pc # "done" => ENABLED Next
    /\ (pc = "done" /\ RootOpened) =>
         /\ ret = [tag |-> "Ok", value |-> md]
         /\ \A p \in DOMAIN tree :
              (Opened(Parent(p)) /\ ~CutShort(Parent(p))) => Visited(p)

\* A finished walk that recorded a failure and then went on to another entry.
C1_Witness ==
    /\ ReturnedOk
    /\ \E i, j \in DOMAIN fslog :
         /\ i < j
         /\ IsRecordedFailure(fslog[i])
         /\ fslog[j].op = "file_type"
         /\ fslog[j].path # fslog[i].path

\* ---------------------------------------------------------------------- C2
\* C2 as stated: after the walk, every entry the listings yielded is in
\* exactly one of files, subdirectories or errors, never in two of them.
C2_Partition ==
    ReturnedOk =>
        \A p \in DOMAIN tree :
            Visited(p) => InFiles(p) + InDirs(p) + Cardinality(ErrorsAt(p)) = 1

\* C2 amended: after the walk, every entry the listings yielded is exactly
\* once in exactly one of files and subdirectories (a directory whose type was
\* read is in subdirectories, every other entry in files), nothing else is in
\* either, and every entry of an opened directory whose listing was not cut
\* short is there.  Errors come on top of that: an entry has one error per
\* failed call on it, so a file can be in files and in errors, and a
\* subdirectory that cannot be opened is in subdirectories and in errors.
C2_PlacedOnceErrorsOnTop ==
    ReturnedOk =>
        /\ \A p \in DOMAIN tree :
            /\ InFiles(p) + InDirs(p) = (IF Visited(p) THEN 1 ELSE 0)
            /\ InDirs(p) = 1 <=> (Visited(p) /\ tree[p] = "dir"
                                             /\ FailedOn("file_type", p) = {})
            /\ (Opened(Parent(p)) /\ ~CutShort(Parent(p))) => Visited(p)
            /\ Cardinality(ErrorsAt(p)) =
                 Cardinality(FailedOn("file_type", p) \cup FailedOn("metadata", p)
                                \cup FailedOn("read_dir", p))
        /\ \A i \in DOMAIN md.files : md.files[i].path \in DOMAIN tree
        /\ \A i \in DOMAIN md.directories : md.directories[i] \in DOMAIN tree

\* A finished walk with a file that is also in errors, an unopened
\* subdirectory that is also in errors, or a nested directory.
C2_Witness ==
    /\ ReturnedOk
    /\ \E p \in DOMAIN tree :
        \/ InFiles(p) = 1 /\ ErrorsAt(p) # {}
        \/ InDirs(p) = 1 /\ ErrorsAt(p) # {} /\ Len(md.directories) > 1

\* ---------------------------------------------------------------------- C3
\* C3 as stated: in every state the total size is the sum of the sizes of
\* the FileMetadata in files, and in the result it is the sum of the sizes of
\* the regular files of the tree whose stat succeeded.
RECURSIVE SumStatted(_)
SumStatted(log) ==
    IF log = <<>> THEN 0
    ELSE SumStatted(Tail(log))
         + (IF /\ Head(log).op = "metadata"
               /\ Head(log).res.ok
               /\ tree[Head(log).path] = "file"
            THEN Head(log).res.val.len ELSE 0)

C3_TotalIsSumOfRegularFiles ==
    /\ md.size = SumSizes(md.files)
    /\ ReturnedOk => md.size = SumStatted(fslog)

\* ---------------------------------------------------------------------- C4
\* C4 as stated: an entry whose file_type query failed has one error and is
\* in neither files nor subdirectories.
C4_UnknownTypeSkipped ==
    \A p \in DOMAIN tree :
        FailedOn("file_type", p) # {} =>
            /\ Cardinality(ErrorsAt(p)) = 1
            /\ InFiles(p) = 0
            /\ InDirs(p) = 0

\* ---------------------------------------------------------------------- C5
\* C5: a discovered subdirectory whose read_dir failed has exactly one error,
\* with its path and the kind of the open failure, and nothing under it is in
\* files, subdirectories or errors.
C5_UnopenedSubdir ==
    \A d \in DOMAIN tree :
        \A i \in FailedOn("read_dir", d) :
            /\ Cardinality(ErrorsAt(d)) = 1
            /\ \A e \in ErrorsAt(d) : md.errors[e].error = fslog[i].res.kind
            /\ \A p \in DOMAIN tree :
                IsUnder(p, d) =>
                    InFiles(p) = 0 /\ InDirs(p) = 0 /\ ErrorsAt(p) = {}

\* A finished walk over a subdirectory that has entries and could not be
\* opened, beside an entry that is in files.
C5_Witness ==
    /\ ReturnedOk
    /\ md.files # <<>>
    /\ \E d \in DOMAIN tree :
        /\ FailedOn("read_dir", d) # {}
        /\ \E p \in DOMAIN tree : IsUnder(p, d)

\* ---------------------------------------------------------------------- C6
\* C6 as stated: a failed metadata() of a file is ignored: no error is
\* recorded for it, the file is in files with size and timestamps at their
\* defaults, and the total size is the sum over the successful stats.
StatFailedDefaults(p) ==
    /\ InFiles(p) = 1
    /\ \A i \in DOMAIN md.files :
        md.files[i].path = p =>
            /\ md.files[i].size = 0
            /\ md.files[i].accessed = None
            /\ md.files[i].modified = None
            /\ md.files[i].created = None
    /\ md.size = SumSizes(md.files)

C6_StatFailureIgnored ==
    \A p \in DOMAIN tree :
        (FailedOn("metadata", p) # {} /\ FailedOn("file_type", p) = {}) =>
            /\ ErrorsAt(p) = {}
            /\ StatFailedDefaults(p)

\* C6 amended: a failed metadata() of a file is recorded as one error with
\* the file's path and the failure's kind; the file is still in files, with
\* size and timestamps at their defaults, and adds nothing to the total size.
C6_StatFailureRecorded ==
    \A p \in DOMAIN tree :
        \A c \in FailedOn("metadata", p) :
            /\ Cardinality({e \in ErrorsAt(p) :
                    md.errors[e] = DirError(p, fslog[c].res.kind, "metadata")}) = 1
            /\ Cardinality(ErrorsAt(p)) = 1 + Cardinality(FailedOn("file_type", p))
            /\ StatFailedDefaults(p)

\* A file whose stat failed, beside a file whose size was added to the total.
C6_Witness ==
    /\ md.size > 0
    /\ \E p \in DOMAIN tree :
        FailedOn("metadata", p) # {} /\ tree[p] = "file"

\* ---------------------------------------------------------------------- C7
\* C7: when read_dir of the root fails (the path is missing, is a file, or
\* is denied), the walk returns that failure and nothing else: no listing is
\* read, no other call is made, the accumulator is untouched and not returned.
RootFailureKinds ==
    CASE rootKind = "none" -> {"NotFound"}
      [] rootKind = "file" -> {"NotADirectory"}
      [] OTHER             -> EntryErrKinds

C7_RootOpenFailure ==
    RootFailed =>
        /\ pc = "done"
        /\ ret = [tag |-> "Err", error |-> fslog[1].res.kind]
        /\ ret.error \in RootFailureKinds
        /\ Len(fslog) = 1
        /\ stack = <<>>
        /\ md = NewDirMetadata

\* The walk of a path that is a regular file has returned.
C7_Witness == pc = "done" /\ rootKind = "file" /\ ret.tag = "Err"

\* ---------------------------------------------------------------------- C8
\* C8: when no call fails, the walk returns no errors; files holds exactly
\* the non-directory entries of the tree, each once, named by its last
\* component and carrying its full path; subdirectories holds exactly the
\* directories below the root, each once, and not the root; the total size is
\* the sum of the stat'ed lengths; an empty root yields three empty sequences.
NoFailure == \A i \in DOMAIN fslog : fslog[i].res.ok

C8_CleanWalk ==
    (ReturnedOk /\ NoFailure) =>
        /\ md.errors = <<>>
        /\ \A p \in DOMAIN tree :
            /\ InFiles(p) = (IF tree[p] = "file" THEN 1 ELSE 0)
            /\ InDirs(p) = (IF tree[p] = "dir" THEN 1 ELSE 0)
        /\ \A i \in DOMAIN md.files :
            /\ md.files[i].path \in DOMAIN tree
            /\ md.files[i].name = FileName(md.files[i].path)
        /\ \A i \in DOMAIN md.directories :
            md.directories[i] \in DOMAIN tree /\ md.directories[i] # Root
        /\ md.size = SumStatted(fslog)
        /\ ret.value = md
        /\ (DOMAIN tree = {}) =>
             (md.files = <<>> /\ md.directories = <<>> /\ md.errors = <<>>)

\* The clean walk of root/{a, b/a}: a file in the root, a file in a
\* subdirectory, sizes that add up.
C8_Witness ==
    /\ ReturnedOk
    /\ NoFailure
    /\ DOMAIN tree = {<<"a">>, <<"b">>, <<"b", "a">>}
    /\ tree[<<"a">>] = "file"
    /\ tree[<<"b", "a">>] = "file"
    /\ [i \in DOMAIN md.files |-> md.files[i].path] = << <<"a">>, <<"b", "a">> >>
    /\ md.directories = << <<"b">> >>
    /\ md.size = MaxSize + MaxSize

\* The clean walk of an empty root.
C8_WitnessEmpty ==
    ReturnedOk /\ NoFailure /\ DOMAIN tree = {} /\ md.files = <<>>

\* ---------------------------------------------------------------------- C9
ChannelClosedError == IoError("Other", SENDER_CHANNEL_ERROR)

OkSends == {i \in DOMAIN wlog : wlog[i].op = "send" /\ wlog[i].ok}

\* C9: every send attempted once the receiver is dropped fails; a failed send
\* is the last thing watch does (no send of the batch's remaining events, no
\* further read) and watch has then returned Err(Other, SENDER_CHANNEL_CLOSED);
\* watch returns that error for no other reason; and the failed send put
\* nothing into the channel.
C9_ClosedChannelEndsWatch ==
    /\ \A i \in DOMAIN wlog :
        (wlog[i].op = "send" /\ wlog[i].closed) => ~wlog[i].ok
    /\ \A i \in DOMAIN wlog :
        (wlog[i].op = "send" /\ ~wlog[i].ok) =>
            /\ i = Len(wlog)
            /\ wlog[i].closed
            /\ wpc = "done"
            /\ wret = ChannelClosedError
    /\ wret = ChannelClosedError =>
            /\ wlog # <<>>
            /\ wlog[Len(wlog)].op = "send"
            /\ ~wlog[Len(wlog)].ok
    /\ Len(chan) + Len(received) = Cardinality(OkSends)

\* watch returned the channel-closed error with an event of the batch unsent
\* and an event in the kernel's queue unread.
C9_Witness ==
    /\ wret = ChannelClosedError
    /\ batch # <<>>
    /\ kq # <<>>

\* --------------------------------------------------------------------- C10
\* C10 as stated: once the receiver is dropped while watch is in its loop,
\* watch eventually returns, whether or not another event arrives.
C10_ClosedLeadsToReturn ==
    (closed /\ wpc \in {"read", "send"}) ~> (wpc = "done")

ReadError == wret.tag = "Err" /\ wret.msg = "os"

\* C10 amended: once the receiver is dropped, watch returns the channel-closed
\* error when it has an event to send: at once if it is sending a batch, and
\* after the next read if the kernel has an event queued (unless that read
\* fails, and then it returns the read's failure).  While the kernel's queue is
\* empty watch stays in read_events_blocking: it leaves it only by a failure
\* of the read, never by the channel closing.
C10_ClosedReturnsOnNextEvent ==
    /\ (closed /\ (wpc = "send" \/ (wpc = "read" /\ kq # <<>>)))
          ~> (wpc = "done" /\ (wret = ChannelClosedError \/ ReadError))
    /\ (closed /\ wpc = "send") ~> (wpc = "done" /\ wret = ChannelClosedError)
    /\ [][(wpc = "read" /\ kq = <<>> /\ wpc' # "read") =>
            (wpc' = "done" /\ wret'.tag = "Err" /\ wret'.msg = "os")]_vars

\* The receiver is dropped and watch sits in the blocking read with nothing
\* queued, after outcomes it sent earlier.
C10_Witness ==
    /\ closed
    /\ wpc = "read"
    /\ kq = <<>>
    /\ OkSends # {}

\* --------------------------------------------------------------------- C11
\* The outcomes that reached the channel, oldest first: those the consumer took
\* and those still waiting in it.
Sent == received \o chan

\* The number of events watch has taken out of a batch to send.
Taken == Len(queued) - Len(kq) - Len(batch)

OkReads == {i \in DOMAIN wlog : wlog[i].op = "read" /\ wlog[i].ok}

\* The translations of the first n events the kernel reported.
Translated(n) == [i \in 1..n |-> FromEvent(queued[i])]

\* C11: the events not yet sent are, in the kernel's order, the rest of the
\* batch followed by the kernel's queue (none is lost between the read and
\* the send); the channel has carried the translation of each event sent, once
\* and in the kernel's order, within a batch and across batches, whatever the
\* capacity; and while the channel is open every event taken out of a batch
\* was sent.
C11_EachEventSentOnceInOrder ==
    /\ Taken >= 0
    /\ SubSeq(queued, Taken + 1, Len(queued)) = batch \o kq
    /\ Sent = Translated(Cardinality(OkSends))
    /\ ~closed => Cardinality(OkSends) = Taken
    /\ Cardinality(OkSends) <= Taken
    /\ Taken <= Cardinality(OkSends) + 1

\* Three events came in two reads, so one batch held two; the consumer has
\* received two different outcomes and the third waits in the open channel.
C11_Witness ==
    /\ ~closed
    /\ Len(received) = 2
    /\ received[1] # received[2]
    /\ Len(chan) = 1
    /\ Cardinality(OkReads) = 2

\* --------------------------------------------------------------------- C12
\* The masks that are exactly one of the 16 flags.
KnownKinds == {{f} : f \in EventFlags}

C13_DirCreateIsCreate ==
    \A i \in DOMAIN Sent :
        "CREATE" \in queued[i].mask => Sent[i].mask = "Create"

\* --------------------------------------------------------------------- C14
PathNotSetError ==
    IoError("NotFound", "The path was not found, maybe you didn't specify it")

SetupFailures ==
    {i \in DOMAIN wlog : wlog[i].op \in {"init", "add"} /\ ~wlog[i].ok}

LoopCalls == {i \in DOMAIN wlog : wlog[i].op \in {"read", "send"}}

\* C14: with no path set watch returns the not-found error as its first step,
\* having asked nothing of the OS; a failure of Inotify::init or Watches::add
\* is the last thing watch does and is what it returns; in both cases no
\* event was read and nothing was sent on the channel.
C14_SetupFailureEndsWatch ==
    /\ (wpath = None /\ wpc # "start") =>
            /\ wpc = "done"
            /\ wret = PathNotSetError
            /\ wlog = <<>>
            /\ Sent = <<>>
    /\ \A i \in SetupFailures :
            /\ i = Len(wlog)
            /\ wpc = "done"
            /\ wret = IoError(wlog[i].kind, "os")
            /\ LoopCalls = {}
            /\ Sent = <<>>
    /\ wret = PathNotSetError => wpath = None

\* The watch could not be registered after inotify was initialised.
C14_Witness ==
    /\ wpc = "done"
    /\ Len(wlog) = 2
    /\ wlog[2].op = "add"
    /\ ~wlog[2].ok
    /\ wret = IoError("PermissionDenied", "os")

\* --------------------------------------------------------------------- C15
FailedReads == {i \in DOMAIN wlog : wlog[i].op = "read" /\ ~wlog[i].ok}

\* C15: a failed read is the last thing watch does: no read and no send
\* follows it, watch has returned, and what it returned is that failure.
C15_ReadFailureReturned ==
    \A i \in FailedReads :
        /\ i = Len(wlog)
        /\ wpc = "done"
        /\ wret = IoError(wlog[i].kind, "os")

\* A read failed after an outcome had been sent, with an event still in the
\* kernel's queue that a retry would have read.
C15_Witness ==
    /\ FailedReads # {}
    /\ OkSends # {}
    /\ kq # <<>>

\* --------------------------------------------------------------------- C16
\* What the last call of watch was, when it failed.
LastFailed(ops) ==
    /\ wlog # <<>>
    /\ wlog[Len(wlog)].op \in ops
    /\ ~wlog[Len(wlog)].ok

\* C16: watch has a return value only when it has returned, and the value is
\* a failure: path not set; the failure of initialising or registering the
\* watch; the failure of a read; or channel closed after a failed send.
C16_WatchOnlyFails ==
    /\ wpc # "done" => wret.tag = "None"
    /\ wpc = "done" =>
            /\ wret.tag = "Err"
            /\ \/ wpath = None /\ wret = PathNotSetError
               \/ /\ LastFailed({"init", "add"})
                  /\ wret = IoError(wlog[Len(wlog)].kind, "os")
               \/ /\ LastFailed({"read"})
                  /\ wret = IoError(wlog[Len(wlog)].kind, "os")
               \/ LastFailed({"send"}) /\ wret = ChannelClosedError

\* watch returned because the channel was closed, after every event the
\* kernel had queued was taken.
C16_Witness ==
    /\ wpc = "done"
    /\ wret = ChannelClosedError
    /\ batch = <<>>
    /\ kq = <<>>
    /\ OkSends # {}

\* --------------------------------------------------------------------- C17
\* C17: on the same tree and with the same outcome of every filesystem call,
\* async_dir_metadata returns what sync_dir_metadata returned (the same
\* failure, or the same files, subdirectories, size and errors in the same
\* order), having made the same calls in the same order.
C17_AsyncEqualsSync ==
    apc = "done" =>
        /\ aret = ret
        /\ aslog = fslog

\* Both walks returned a result with a file, a subdirectory that was listed
\* and an error.
C17_Witness ==
    /\ apc = "done"
    /\ aret.tag = "Ok"
    /\ aret.value.files # <<>>
    /\ aret.value.directories # <<>>
    /\ aret.value.errors # <<>>
    /\ \E i \in DOMAIN aslog : aslog[i].op = "read_dir" /\ aslog[i].res.ok

\* --------------------------------------------------------------------- C18
\* The positions in `files` of the files with a path, and with a name.
WithPath(p) == {i \in DOMAIN ret.value.files : ret.value.files[i].path = p}

WithName(n) == {i \in DOMAIN ret.value.files : ret.value.files[i].name = n}

C19_NoRootPathPanics ==
    fcall.fn = "new_path_buf" => fret.tag # "Panic"

\* --------------------------------------------------------------------- C20
\* C20 as stated: in the result of a walk, a file's read_only flag is set
\* exactly when the file is read-only and its symlink flag exactly when the
\* entry is a symbolic link.  Stated for the walks on which no call failed, so
\* that every file was stat'ed with success.
C20_FlagsReflectFile ==
    (ReturnedOk /\ NoFailure) =>
        \A i \in DOMAIN md.files :
            /\ md.files[i].read_only = ReadOnly(md.files[i].path)
            /\ md.files[i].symlink = IsSymlink(md.files[i].path)

\* --------------------------------------------------------------------- C21
\* C21 as stated: the errors are those of the failed calls, in order, and each
\* has the path of the entry its call was made on or, for a failed read of
\* the next entry of directory D, the path of D or of an entry inside D.
C21_ErrorPathNamesEntry ==
    /\ Len(md.errors) = Len(FailedCalls)
    /\ \A i \in DOMAIN md.errors :
        LET c == FailedCalls[i]
            e == md.errors[i]
        IN IF c.op \in {"next", "next_last"}
           THEN e.path = c.path \/ (e.path # Root /\ Parent(e.path) = c.path)
           ELSE e.path = c.path

\* --------------------------------------------------------------------- C22
\* The timestamp a time accessor was called on, and the clock at the call.
AccessedStamp == fcall.arg.file[fcall.arg.field]

AccessorReturned == fcall.fn = "time_accessor" /\ fret.tag # "None"

\* C22 as stated: a time accessor returns None when the timestamp is absent
\* and a value whenever it is present, whatever the clock says.
C22_AccessorSomeIffPresent ==
    AccessorReturned =>
        /\ fret.tag = "Ok"
        /\ (fret.value = None) <=> (AccessedStamp = None)

\* C22 amended: every accessor returns None when the timestamp is absent; the
\* _24hr and _am_pm accessors return a value whenever it is present; the
\* _humatime accessors return the formatted time elapsed when the timestamp is
\* not later than the clock, and None when it is later.
C22_AccessorNoneWhenAbsentOrFuture ==
    AccessorReturned =>
        /\ fret.tag = "Ok"
        /\ AccessedStamp = None => fret.value = None
        /\ (AccessedStamp # None /\ fcall.arg.kind # "humatime") =>
                fret.value # None
        /\ (AccessedStamp # None /\ fcall.arg.kind = "humatime") =>
                LET t == ToSystemTime(AccessedStamp[1])
                    now == ToSystemTime(fcall.arg.now)
                IN IF t <= now
                   THEN fret.value = Some(FormatDuration(now - t))
                   ELSE fret.value = None

\* A _humatime accessor was called on a timestamp later than the clock.
C22_Witness ==
    /\ AccessorReturned
    /\ fcall.arg.kind = "humatime"
    /\ AccessedStamp # None
    /\ ToSystemTime(AccessedStamp[1]) > ToSystemTime(fcall.arg.now)

\* --------------------------------------------------------------------- C28
DurationReturned ==
    fcall.fn \in {"tai64_duration", "tai64_to_humantime"} /\ fret.tag # "None"

\* C28 as stated: tai64_duration(earlier_time, current_time) is
\* Some(current_time - earlier_time) when earlier_time is not later than
\* current_time and None only when it is later; tai64_to_humantime is that
\* duration formatted.
C28_DurationBetween ==
    DurationReturned =>
        LET e == ToSystemTime(fcall.arg.earlier_time)
            c == ToSystemTime(fcall.arg.current_time)
            d == IF fcall.fn = "tai64_duration" THEN c - e
                 ELSE FormatDuration(c - e)
        IN IF e <= c THEN fret.value = Some(d) ELSE fret.value = None

\* --------------------------------------------------------------------- C23
FeatureWalked == fcall.fn = "sync_dir_metadata" /\ fret.tag # "None"

\* The names and paths of a sequence of files.
NamesAndPaths(files) ==
    [i \in DOMAIN files |-> <<files[i].name, files[i].path>>]

\* The error a failed stat of a file leaves: those of a path that is in files
\* (a subdirectory that could not be opened is in directories).
IsStatError(e, files) ==
    /\ e.display = "metadata"
    /\ \E i \in DOMAIN files : files[i].path = e.path

\* C23 as stated: a walk with any subset of the features has the outcome
\* (success or failure), the files' names and paths, the subdirectories and
\* the errors of the walk with all of them.
C23_TogglesIndependent ==
    FeatureWalked =>
        /\ fret.tag = ret.tag
        /\ fret.tag = "Ok" =>
            /\ NamesAndPaths(fret.value.files) = NamesAndPaths(ret.value.files)
            /\ fret.value.directories = ret.value.directories
            /\ fret.value.errors = ret.value.errors

\* C23 amended: the outcome, the files' names and paths and the
\* subdirectories are those of the walk with every feature; so are the
\* errors when size, time or extra is enabled; with none of the three no file
\* is stat'ed and the errors are those of the full walk less the errors of
\* failed stats.  The build with every feature returns what the walk returned.
C23_TogglesKeepAllButStatErrors ==
    FeatureWalked =>
        /\ fret.tag = ret.tag
        /\ fcall.arg = Features => fret = ret
        /\ fret.tag = "Ok" =>
            /\ NamesAndPaths(fret.value.files) = NamesAndPaths(ret.value.files)
            /\ fret.value.directories = ret.value.directories
            /\ fret.value.errors =
                    IF fcall.arg \cap {"size", "time", "extra"} # {}
                    THEN ret.value.errors
                    ELSE SelectSeq(ret.value.errors,
                            LAMBDA e : ~IsStatError(e, ret.value.files))

\* A build with format detection only walked a tree on which a stat had
\* failed in the full walk, and has fewer errors than the full walk.
C23_Witness ==
    /\ FeatureWalked
    /\ fcall.arg = {"file-type"}
    /\ fret.tag = "Ok"
    /\ \E i \in DOMAIN fslog : fslog[i].op = "metadata" /\ ~fslog[i].res.ok
    /\ Len(fret.value.errors) < Len(ret.value.errors)

\* --------------------------------------------------------------------- C24
\* The elements of a sequence.
Range(s) == {s[i] : i \in DOMAIN s}

SecondWalked == FeatureWalked /\ fcall.arg = Features

Dirs == {Root} \cup {p \in Paths : Len(p) = 1}

\* The call c was made while enumerating the listing of directory d.
Enumerating(c, d) ==
    \/ c.op \in {"next", "next_last"} /\ c.path = d
    \/ c.op \in {"file_type", "format", "metadata"} /\ Parent(c.path) = d

\* The call c was made for a directory below d: to open it or to enumerate it.
Below(c, d) ==
    \/ c.op = "read_dir" /\ IsUnder(c.path, d)
    \/ \E s \in Dirs : IsUnder(s, d) /\ Enumerating(c, s)

\* The position in the log of the first call on path p with operation op.
FirstCall(op, p) ==
    CHOOSE i \in DOMAIN fslog :
        /\ fslog[i].op = op /\ fslog[i].path = p
        /\ \A j \in DOMAIN fslog :
              (fslog[j].op = op /\ fslog[j].path = p) => i <= j

InOnePiece ==
    LET res == fslog[1].res
        opened == [md |-> NewDirMetadata, directories |-> <<>>,
                   log |-> <<Call("root", Root, res, FALSE)>>]
    IN IF res.ok
       THEN [tag |-> "Ok", value |-> AsyncIterDir(opened, Root).md]
       ELSE [tag |-> "Err", error |-> res.kind]

\* The format detection of path p has completed with the format f.
Detected(p, f) ==
    \E j \in DOMAIN fslog :
        /\ fslog[j].op = "format"
        /\ fslog[j].path = p
        /\ UnwrapOrDefault(fslog[j].res) = f

\* At every suspension point: one operation at most is pending, and it was
\* issued by the innermost level, every other level being suspended at its
\* recursive call; the worker is alive only while its format detection is the
\* pending operation; every file in `files` has had its detection completed.
OneSuspension ==
    /\ Cardinality(pending) <= 1
    /\ \A o \in pending : o.level = Len(stack)
    /\ \A i \in DOMAIN stack : i < Len(stack) => stack[i].at = "async_iter_dir"
    /\ worker.state # "idle" =>
            pending = {Pending("format", worker.path, "worker")}
    /\ \A o \in pending : o.by = "worker" => worker.state # "idle"
    /\ \A i \in DOMAIN md.files :
            Detected(md.files[i].path, md.files[i].file_format)
    /\ pc = "done" => (pending = {} /\ ret = InOnePiece)

\* A step of the worker leaves the accumulator and the frames alone, and the
\* accumulator changes only in steps taken while no worker is alive.
WorkerApart ==
    /\ (worker.state = "running" /\ worker' # worker) =>
            (md' = md /\ stack' = stack /\ ret' = ret)
    /\ md' # md => worker.state = "idle"

\* C26: in the suspending walk at most one directory level is active and at
\* most one filesystem operation or offloaded format detection is pending at
\* every suspension point; the worker never touches the accumulator; a file
\* is in `files` only after its format detection has completed; the result is
\* the one the tree and the outcomes of the calls decide, and the accumulator
\* is never changed while a worker runs.
C26_OneOperationPending == []OneSuspension /\ [][WorkerApart]_vars

\* A format detection is running for a file of a subdirectory, after a file
\* of the root was pushed.
C26_Witness ==
    /\ worker.state = "running"
    /\ Len(stack) = 2
    /\ stack[1].at = "async_iter_dir"
    /\ md.files # <<>>

\* --------------------------------------------------------------------- C27
\* An accumulator with nothing in it.
Empty(self) ==
    /\ self.files = <<>>
    /\ self.directories = <<>>
    /\ self.errors = <<>>
    /\ self.size = 0

\* A walk was started on the value the first walk returned.
StartedAgain ==
    fcall.fn \in {"self.sync_dir_metadata", "self.sync_iter_dir"}

\* C27 as stated: whenever a walk begins its accumulator is empty, and what
\* it returns is what that walk discovered -- on the unchanged tree, what the
\* first walk returned; this for sync_dir_metadata on a new value, for
\* sync_dir_metadata on a returned value and for sync_iter_dir on a returned
\* value, no filesystem call having failed.
C27_WalkStartsEmpty ==
    /\ pc = "new" => Empty(md)
    /\ (StartedAgain /\ NoFailure) =>
        /\ Empty(fcall.arg)
        /\ fret = ret

\* --------------------------------------------------------------------- C29
\* The walk with every step it can take eventually taken: the walk is one
\* sequential call, and every filesystem call it makes returns.
WalkLive == Spec /\ WF_vars(Next)

\* The positions in the log of the calls that opened a directory.
Opens == {i \in DOMAIN fslog : fslog[i].op \in {"root", "read_dir"}}

\* The symbolic links the walk has met: those whose type it has asked for.
LinksMet ==
    {p \in DOMAIN tree :
        IsSymlink(p) /\ \E i \in DOMAIN fslog :
                            fslog[i].op = "file_type" /\ fslog[i].path = p}

\* The paths waiting to be opened, at any level of the recursion.
ToOpen == UNION {Range(stack[i].directories) : i \in DOMAIN stack}

\* An entry is opened only when its own type was reported as directory; a
\* symbolic link is never put among the directories nor opened, and it is in
\* `files`; no directory is opened twice.
NoLinkFollowed ==
    /\ \A i \in Opens : fslog[i].op = "read_dir" =>
            \E j \in 1..(i - 1) :
                /\ fslog[j].op = "file_type"
                /\ fslog[j].path = fslog[i].path
                /\ fslog[j].res = Ok("dir")
    /\ \A p \in LinksMet :
            /\ p \notin ToOpen
            /\ p \notin Range(md.directories)
            /\ \A i \in Opens : fslog[i].path # p
            /\ \E i \in DOMAIN md.files : md.files[i].path = p
    /\ \A i, j \in Opens : fslog[i].path = fslog[j].path => i = j

\* C29: on every finite tree, whatever calls fail and with symbolic links to
\* an ancestor in it, the walk returns; an entry is descended into only when
\* its own type is directory, so a link is never followed and is recorded as
\* a file, and each directory is opened at most once.
C29_WalkTerminates == []NoLinkFollowed /\ <>(pc = "done")

\* The walk is over: it opened the subdirectory `a`, met the link a/b to the
\* root there, and recorded it as a file.
C29_Witness ==
    /\ pc = "done"
    /\ ret.tag = "Ok"
    /\ <<"a", "b">> \in LinksMet
    /\ \E i \in DOMAIN md.files : md.files[i].path = <<"a", "b">>
    /\ \E i \in Opens : fslog[i].path = <<"a">>

====
